---- MODULE Spec2Model ----
(***************************************************************************)
(* Layout reconstruction engine of Converto (src/app.js): the vector      *)
(* instruction replay (extractLineSegments), coordinate clustering         *)
(* (clusterValues), ruled-table detection (detectTables), line assembly    *)
(* (groupIntoLines, buildLineText), the quarterly-amounts fallback         *)
(* (detectQuarterTable) and the block merge of buildPageHtml.              *)
(*                                                                         *)
(* Numbers.  The JavaScript code computes with doubles.  Every coordinate   *)
(* of the model is an integer count of 1/Unit page units, Unit a power of  *)
(* two, and every input is a multiple of a coarse fraction of Unit, so the *)
(* halvings of the code (midpoints, running averages) are exact here as    *)
(* they are exact in binary floating point.                                *)
(*                                                                         *)
(* Text.  A string is a sequence of characters, a character a one-letter   *)
(* TLA+ string; a few named tokens stand for characters that have no       *)
(* printable form ("<SOH>" is U+0001, "<TAB>" is U+0009, "<NBSP>" U+00A0). *)
(***************************************************************************)
EXTENDS Integers, Sequences, FiniteSets, TLC

VARIABLES
    \* extractLineSegments (src/app.js:297-369)
    pageH,      \* page height handed to extractLineSegments
    ops,        \* the instructions replayed so far (fnArray/argsArray prefix)
    ctm,        \* current transform matrix, a 6-tuple
    ctmStack,   \* saved matrices, top last
    cx, cy,     \* current point (untransformed)
    mx, my,     \* subpath-start point (untransformed)
    segs,       \* emitted segments
    hist,       \* history: the machine's state after each instruction
    \* clusterValues (src/app.js:382-394)
    cvVals,     \* the argument vals
    cvEps,      \* the argument eps
    cvOut,      \* the returned clusters, with the trace of the loop
    cvPc,       \* "call" before the call, "done" after it, "idle" when unused
    \* detectQuarterTable (src/app.js:574-623)
    lines,      \* the text lines: a sequence of [y, items]
    quarterMatch, \* the value returned by detectQuarterTable
    qtPc,       \* "call" before the call, "done" after it, "idle" when unused
    \* buildPageHtml (src/app.js:629-691); it also sets lines and quarterMatch
    page,       \* the argument: [textItems, segments]
    detected,   \* the value returned by detectTables
    blocks,     \* the sorted block list
    html,       \* the returned markup, a sequence of fragments
    pgPc,       \* "call" before the call, "done" after it, "idle" when unused
    \* hasHEdge / hasVEdge (src/app.js:444-464)
    edSegs,     \* the same-axis segments hSegs or vSegs: a sequence of [a, b, v]
    edLo, edHi, \* the interval to cover
    edFixed,    \* the coordinate of the edge on the other axis
    edOut,      \* the returned boolean
    edPc,       \* "call" before the call, "done" after it, "idle" when unused
    \* the flood fill of detectTables (src/app.js:482-507)
    flPresent,  \* cellPresent, the presence matrix
    flScan,     \* the cell the scan (r, c) is at, counted row-major from 1
    flQueue,    \* queue, the worklist of the fill in progress
    flVisited,  \* visited, as the set of the cells marked
    flCells,    \* cells, the region of the fill in progress
    flRegions,  \* tableRegions, the regions kept
    flFilled,   \* history: every region filled, kept or not
    flEnqueued, \* history: how many times each cell entered the worklist
    flPc,       \* "scan", "fill", "done", or "idle" when unused
    \* processPdfFile (src/app.js:145-179) and extractPage (src/app.js:271-294)
    pdf,        \* the document: what each of its pages holds
    docPc,      \* the promise processPdfFile is waiting for, or how it ended
    docI,       \* the loop variable i of the extraction loop
    docPage,    \* the page being extracted: the locals of extractPage
    docPages,   \* the array pages
    docOut,     \* the value processPdfFile resolved with
    docLog,     \* history: the pipeline steps performed, in order
    \* groupIntoLines (src/app.js:693-709)
    glItems,    \* the argument items
    glOut,      \* the returned lines
    glPc,       \* "call" before the call, "done" after it, "idle" when unused
    \* buildLineText (src/app.js:713-732)
    ltItems,    \* the argument items
    ltOut,      \* the returned text
    ltPc,       \* "call" before the call, "done" after it, "idle" when unused
    \* resolveFileNameCollisions (src/app.js:257-265)
    fnNames,    \* the argument names
    fnOut,      \* the returned file names
    fnPc,       \* "call" before the call, "done" after it, "idle" when unused
    \* the page: the change and click handlers (src/app.js:54-127)
    selectedFiles,  \* the files chosen, each named by its place in the chooser
    results,        \* the results array: a sequence of [file, status, run]
    completed,      \* the local completed of the generate handler
    genPc,          \* "ready", "await" while processPdfFile is pending, "idle" when unused
    genI,           \* the place in results of the result the loop is at
    pdfInputDisabled, sigSelectDisabled, generateBtnDisabled, downloadAllBtnDisabled,
    dlPending,      \* download handlers waiting for downloadAllResults
    runs,           \* history: the generate runs started
    lastEvent       \* history: what happened last

segVars == <<pageH, ops, ctm, ctmStack, cx, cy, mx, my, segs, hist>>
cvVars == <<cvVals, cvEps, cvOut, cvPc>>
qtVars == <<lines, quarterMatch, qtPc>>
pgVars == <<page, detected, blocks, html, pgPc>>
edVars == <<edSegs, edLo, edHi, edFixed, edOut, edPc>>
flVars == <<flPresent, flScan, flQueue, flVisited, flCells, flRegions, flFilled, flEnqueued, flPc>>
docVars == <<pdf, docPc, docI, docPage, docPages, docOut, docLog>>
coreVars == <<segVars, cvVars, qtVars, pgVars>>
auxVars == <<edVars, flVars, docVars>>
glVars == <<glItems, glOut, glPc>>
ltVars == <<ltItems, ltOut, ltPc>>
fnVars == <<fnNames, fnOut, fnPc>>
uiVars == <<selectedFiles, results, completed, genPc, genI, pdfInputDisabled,
            sigSelectDisabled, generateBtnDisabled, downloadAllBtnDisabled, dlPending,
            runs, lastEvent>>
extVars == <<glVars, ltVars, fnVars, uiVars>>
vars == <<coreVars, auxVars, extVars>>

NoValue == [none |-> TRUE]

SegIdle ==
    /\ pageH = 0 /\ ops = << >> /\ ctm = << >> /\ ctmStack = << >>
    /\ cx = 0 /\ cy = 0 /\ mx = 0 /\ my = 0 /\ segs = << >> /\ hist = << >>

CvIdle ==
    /\ cvVals = << >> /\ cvEps = 0 /\ cvOut = NoValue /\ cvPc = "idle"

QtIdle ==
    /\ lines = << >> /\ quarterMatch = NoValue /\ qtPc = "idle"

PgIdle ==
    /\ page = NoValue /\ detected = NoValue /\ blocks = << >> /\ html = << >>
    /\ pgPc = "idle"

EdIdle ==
    /\ edSegs = << >> /\ edLo = 0 /\ edHi = 0 /\ edFixed = 0 /\ edOut = NoValue
    /\ edPc = "idle"

FlIdle ==
    /\ flPresent = << >> /\ flScan = 0 /\ flQueue = << >> /\ flVisited = {}
    /\ flCells = << >> /\ flRegions = << >> /\ flFilled = << >> /\ flEnqueued = << >>
    /\ flPc = "idle"

DocIdle ==
    /\ pdf = << >> /\ docPc = "idle" /\ docI = 0 /\ docPage = NoValue
    /\ docPages = << >> /\ docOut = NoValue /\ docLog = << >>

CoreIdle == SegIdle /\ CvIdle /\ QtIdle /\ PgIdle
AuxIdle == EdIdle /\ FlIdle /\ DocIdle

GlIdle ==
    /\ glItems = << >> /\ glOut = NoValue /\ glPc = "idle"

LtIdle ==
    /\ ltItems = << >> /\ ltOut = NoValue /\ ltPc = "idle"

FnIdle ==
    /\ fnNames = << >> /\ fnOut = NoValue /\ fnPc = "idle"

UiIdle ==
    /\ selectedFiles = << >> /\ results = << >> /\ completed = 0 /\ genPc = "idle"
    /\ genI = 0 /\ pdfInputDisabled = FALSE /\ sigSelectDisabled = FALSE
    /\ generateBtnDisabled = FALSE /\ downloadAllBtnDisabled = FALSE /\ dlPending = 0
    /\ runs = 0 /\ lastEvent = "none"

ExtIdle == GlIdle /\ LtIdle /\ FnIdle /\ UiIdle

----------------------------------------------------------------------------
(* Arithmetic helpers *)

Unit == 2^8

Abs(a) == IF a < 0 THEN -a ELSE a
Min2(a, b) == IF a <= b THEN a ELSE b
Max2(a, b) == IF a >= b THEN a ELSE b
Half(a) == a \div 2
MinOf(S) == CHOOSE m \in S : \A q \in S : m <= q
MaxOf(S) == CHOOSE m \in S : \A q \in S : m >= q

SeqToSet(s) == {s[k] : k \in 1..Len(s)}

----------------------------------------------------------------------------
(* extractLineSegments *)

MaxOps == 4
MaxCtmOps == 6

IDENTITY == <<1, 0, 0, 1, 0, 0>>

\* A mapping that leaves the vertical axis as the matrix gives it.
transformPointUnflipped(m, H, x, y) ==
    << m[1] * x + m[3] * y + m[5],
       m[2] * x + m[4] * y + m[6] >>

\* transformPoint: the matrix applied to (x, y), the vertical axis flipped.
transformPoint(m, H, x, y) ==
    << m[1] * x + m[3] * y + m[5],
       H - (m[2] * x + m[4] * y + m[6]) >>

\* A composition in the wrong order (given o old).
ComposeGivenFirst(m, g) ==
    << g[1]*m[1] + g[3]*m[2],
       g[2]*m[1] + g[4]*m[2],
       g[1]*m[3] + g[3]*m[4],
       g[2]*m[3] + g[4]*m[4],
       g[1]*m[5] + g[3]*m[6] + g[5],
       g[2]*m[5] + g[4]*m[6] + g[6] >>

\* case OPS.transform: n = ctm o given.
Compose(m, g) ==
    << m[1]*g[1] + m[3]*g[2],
       m[2]*g[1] + m[4]*g[2],
       m[1]*g[3] + m[3]*g[4],
       m[2]*g[3] + m[4]*g[4],
       m[1]*g[5] + m[3]*g[6] + m[5],
       m[2]*g[5] + m[4]*g[6] + m[6] >>

Seg(p, q) == [x0 |-> p[1], y0 |-> p[2], x1 |-> q[1], y1 |-> q[2]]

\* A rectangle whose third and fourth segments are emitted in the other order.
RectSegsSwapped(m, H, a) ==
    LET A == transformPoint(m, H, a[1], a[2])
        B == transformPoint(m, H, a[1] + a[3], a[2])
        D == transformPoint(m, H, a[1] + a[3], a[2] + a[4])
        E == transformPoint(m, H, a[1], a[2] + a[4])
    IN  << Seg(A, B), Seg(B, D), Seg(E, A), Seg(D, E) >>

\* case OPS.rectangle: the four sides, bottom, right, top, left.
RectSegs(m, H, a) ==
    LET A == transformPoint(m, H, a[1], a[2])
        B == transformPoint(m, H, a[1] + a[3], a[2])
        D == transformPoint(m, H, a[1] + a[3], a[2] + a[4])
        E == transformPoint(m, H, a[1], a[2] + a[4])
    IN  << Seg(A, B), Seg(B, D), Seg(D, E), Seg(E, A) >>

\* A closePath that asks for more than 0.5 on both axes.
CloseSegsBothAxes(m, H, px, py, sx, sy) ==
    LET P == transformPoint(m, H, px, py)
        Q == transformPoint(m, H, sx, sy)
    IN  IF 2 * Abs(P[1] - Q[1]) > Unit /\ 2 * Abs(P[2] - Q[2]) > Unit
        THEN << Seg(P, Q) >>
        ELSE << >>

\* case OPS.closePath: the threshold of 0.5 on either axis.
CloseSegs(m, H, px, py, sx, sy) ==
    LET P == transformPoint(m, H, px, py)
        Q == transformPoint(m, H, sx, sy)
    IN  IF 2 * Abs(P[1] - Q[1]) > Unit \/ 2 * Abs(P[2] - Q[2]) > Unit
        THEN << Seg(P, Q) >>
        ELSE << >>

\* The inputs the instruction stream is drawn from.
PageHeights == {100 * Unit, 60 * Unit}
MatPool == { <<1, 0, 0, 1, 10 * Unit, 20 * Unit>>,     \* translation
             <<2, 0, 0, 1, 0, 0>> }                    \* horizontal scale
MovePool == { <<10 * Unit, 10 * Unit>>, <<40 * Unit, 10 * Unit>> }
LinePool == { <<10 * Unit, 10 * Unit>>,
              <<10 * Unit + (3 * Unit) \div 8, 10 * Unit + (3 * Unit) \div 8>>,
              <<10 * Unit, 30 * Unit>> }
RectPool == { <<10 * Unit, 20 * Unit, 30 * Unit, 15 * Unit>>,
              <<5 * Unit, 5 * Unit, 0, 10 * Unit>> }

MatrixFns == {"save", "restore", "transform"}

OnlyMatrixOps == \A k \in 1..Len(ops) : ops[k].fn \in MatrixFns

\* The loop condition i < ops.fnArray.length, with the stream's length bounded:
\* streams of any instruction up to MaxOps, of matrix instructions up to MaxCtmOps.
MoreOps(fn) ==
    \/ Len(ops) < MaxOps
    \/ fn \in MatrixFns /\ OnlyMatrixOps /\ Len(ops) < MaxCtmOps

Snapshot(m, st, px, py, sx, sy, ss) ==
    [ctm |-> m, stack |-> st, cx |-> px, cy |-> py, mx |-> sx, my |-> sy,
     nsegs |-> Len(ss)]

\* One iteration of the loop: the instruction is consumed and the history extended.
Consume(op) ==
    /\ ops' = Append(ops, op)
    /\ hist' = Append(hist, Snapshot(ctm', ctmStack', cx', cy', mx', my', segs'))
    /\ UNCHANGED pageH
    /\ UNCHANGED <<cvVars, qtVars, pgVars, auxVars, extVars>>

SegInit ==
    /\ pageH \in PageHeights
    /\ ops = << >>
    /\ ctm = IDENTITY
    /\ ctmStack = << >>
    /\ cx = 0 /\ cy = 0
    /\ mx = 0 /\ my = 0
    /\ segs = << >>
    /\ hist = << >>

Save ==
    /\ MoreOps("save")
    /\ ctmStack' = Append(ctmStack, ctm)
    /\ UNCHANGED <<ctm, cx, cy, mx, my, segs>>
    /\ Consume([fn |-> "save", args |-> << >>])

\* A restore that falls back to the identity matrix when nothing is saved.
RestoreResetting ==
    /\ MoreOps("restore")
    /\ IF Len(ctmStack) > 0
       THEN /\ ctm' = ctmStack[Len(ctmStack)]
            /\ ctmStack' = SubSeq(ctmStack, 1, Len(ctmStack) - 1)
       ELSE ctm' = IDENTITY /\ UNCHANGED ctmStack
    /\ UNCHANGED <<cx, cy, mx, my, segs>>
    /\ Consume([fn |-> "restore", args |-> << >>])

Restore ==
    /\ MoreOps("restore")
    /\ IF Len(ctmStack) > 0
       THEN /\ ctm' = ctmStack[Len(ctmStack)]
            /\ ctmStack' = SubSeq(ctmStack, 1, Len(ctmStack) - 1)
       ELSE UNCHANGED <<ctm, ctmStack>>
    /\ UNCHANGED <<cx, cy, mx, my, segs>>
    /\ Consume([fn |-> "restore", args |-> << >>])

Transform ==
    /\ MoreOps("transform")
    /\ \E g \in MatPool :
        /\ ctm' = Compose(ctm, g)
        /\ UNCHANGED <<ctmStack, cx, cy, mx, my, segs>>
        /\ Consume([fn |-> "transform", args |-> g])

MoveTo ==
    /\ MoreOps("moveTo")
    /\ \E p \in MovePool :
        /\ mx' = p[1] /\ my' = p[2]
        /\ cx' = p[1] /\ cy' = p[2]
        /\ UNCHANGED <<ctm, ctmStack, segs>>
        /\ Consume([fn |-> "moveTo", args |-> p])

LineTo ==
    /\ MoreOps("lineTo")
    /\ \E p \in LinePool :
        /\ segs' = Append(segs, Seg(transformPoint(ctm, pageH, cx, cy),
                                    transformPoint(ctm, pageH, p[1], p[2])))
        /\ cx' = p[1] /\ cy' = p[2]
        /\ UNCHANGED <<ctm, ctmStack, mx, my>>
        /\ Consume([fn |-> "lineTo", args |-> p])

\* A rectangle that moves the current point and the subpath start to its corner.
RectangleMovingPoint ==
    /\ MoreOps("rectangle")
    /\ \E a \in RectPool :
        /\ segs' = segs \o RectSegs(ctm, pageH, a)
        /\ cx' = a[1] /\ cy' = a[2]
        /\ mx' = a[1] /\ my' = a[2]
        /\ UNCHANGED <<ctm, ctmStack>>
        /\ Consume([fn |-> "rectangle", args |-> a])

Rectangle ==
    /\ MoreOps("rectangle")
    /\ \E a \in RectPool :
        /\ segs' = segs \o RectSegs(ctm, pageH, a)
        /\ UNCHANGED <<ctm, ctmStack, cx, cy, mx, my>>
        /\ Consume([fn |-> "rectangle", args |-> a])

ClosePath ==
    /\ MoreOps("closePath")
    /\ segs' = segs \o CloseSegs(ctm, pageH, cx, cy, mx, my)
    /\ cx' = mx /\ cy' = my
    /\ UNCHANGED <<ctm, ctmStack, mx, my>>
    /\ Consume([fn |-> "closePath", args |-> << >>])

\* Any opcode the switch has no case for.
OtherOp ==
    /\ MoreOps("other")
    /\ UNCHANGED <<ctm, ctmStack, cx, cy, mx, my, segs>>
    /\ Consume([fn |-> "other", args |-> << >>])

SegNext ==
    \/ Save \/ Restore \/ Transform \/ MoveTo \/ LineTo
    \/ Rectangle \/ ClosePath \/ OtherOp

InitSeg == SegInit /\ CvIdle /\ QtIdle /\ PgIdle /\ AuxIdle /\ ExtIdle

SpecSeg == InitSeg /\ [][SegNext]_vars

----------------------------------------------------------------------------
(* Properties of extractLineSegments *)

CtmBefore(k) == IF k = 1 THEN IDENTITY ELSE hist[k - 1].ctm
NsegsBefore(k) == IF k = 1 THEN 0 ELSE hist[k - 1].nsegs

\* The 2x3 affine matrix <<a, b, c, d, e, f>> as the 3x3 matrix
\*   a c e
\*   b d f
\*   0 0 1
Entry(m, r, c) ==
    IF r = 3 THEN (IF c = 3 THEN 1 ELSE 0) ELSE m[2 * (c - 1) + r]

MatMul(p, q) ==
    LET E(r, c) == Entry(p, r, 1) * Entry(q, 1, c) + Entry(p, r, 2) * Entry(q, 2, c)
                   + Entry(p, r, 3) * Entry(q, 3, c)
    IN  << E(1, 1), E(2, 1), E(1, 2), E(2, 2), E(1, 3), E(2, 3) >>

\* The product of the matrices given by instructions j+1 .. k, in instruction order.
RECURSIVE ProductRange(_, _)
ProductRange(j, k) ==
    IF k <= j THEN IDENTITY ELSE MatMul(ProductRange(j, k - 1), ops[k].args)

\* The indices of the saves not yet restored after k instructions, innermost last.
RECURSIVE OpenSaves(_)
OpenSaves(k) ==
    IF k = 0 THEN << >>
    ELSE LET below == OpenSaves(k - 1)
         IN  CASE ops[k].fn = "save" -> Append(below, k)
               [] ops[k].fn = "restore" /\ Len(below) > 0 ->
                      SubSeq(below, 1, Len(below) - 1)
               [] OTHER -> below

\* C8: after a run of transform instructions the matrix is the matrix before the
\* run times the product of the given matrices in instruction order, and the
\* matrix right after a restore is the matrix that was current at the matching
\* save, at every nesting depth.
C8_TransformComposition ==
    /\ \A j \in 0..Len(ops) : \A k \in (j + 1)..Len(ops) :
          (\A n \in (j + 1)..k : ops[n].fn = "transform")
              => hist[k].ctm = MatMul(CtmBefore(j + 1), ProductRange(j, k))
    /\ \A k \in 1..Len(ops) :
          (ops[k].fn = "restore" /\ Len(OpenSaves(k - 1)) > 0)
              => LET open == OpenSaves(k - 1)
                 IN  hist[k].ctm = CtmBefore(open[Len(open)])

\* A nested save/restore pair with transforms at both depths has been replayed.
C8_Witness ==
    /\ Len(ops) = 6
    /\ ops[1].fn = "save" /\ ops[2].fn = "transform" /\ ops[3].fn = "save"
    /\ ops[4].fn = "transform" /\ ops[5].fn = "restore" /\ ops[6].fn = "restore"
    /\ ops[2].args # ops[4].args
    /\ hist[4].ctm # hist[2].ctm
    /\ hist[5].ctm = hist[2].ctm
    /\ hist[2].ctm # IDENTITY
    /\ ctm = IDENTITY

\* C9: a rectangle(x, y, w, h) replayed under the identity matrix emits exactly
\* the four segments (x,H-y)->(x+w,H-y)->(x+w,H-y-h)->(x,H-y-h)->(x,H-y), in that
\* order (bottom, right, top, left), each starting where the previous one ended.
C9_RectangleDecomposition ==
    \A k \in 1..Len(ops) :
        (ops[k].fn = "rectangle" /\ CtmBefore(k) = IDENTITY)
            => LET a == ops[k].args
                   n == NsegsBefore(k)
                   x == a[1]
                   y == a[2]
                   w == a[3]
                   h == a[4]
               IN  /\ hist[k].nsegs = n + 4
                   /\ Len(segs) >= n + 4
                   /\ segs[n + 1] = [x0 |-> x, y0 |-> pageH - y,
                                     x1 |-> x + w, y1 |-> pageH - y]
                   /\ segs[n + 2] = [x0 |-> x + w, y0 |-> pageH - y,
                                     x1 |-> x + w, y1 |-> pageH - y - h]
                   /\ segs[n + 3] = [x0 |-> x + w, y0 |-> pageH - y - h,
                                     x1 |-> x, y1 |-> pageH - y - h]
                   /\ segs[n + 4] = [x0 |-> x, y0 |-> pageH - y - h,
                                     x1 |-> x, y1 |-> pageH - y]

\* A rectangle of positive width and height was replayed first, under the identity.
C9_Witness ==
    /\ Len(ops) >= 1
    /\ ops[1].fn = "rectangle"
    /\ ops[1].args[3] > 0 /\ ops[1].args[4] > 0
    /\ Len(segs) >= 4
    /\ segs[1].x0 = ops[1].args[1]
    /\ segs[4].x1 = segs[1].x0 /\ segs[4].y1 = segs[1].y0

\* The machine before instruction k.
Before(k) ==
    IF k = 1 THEN Snapshot(IDENTITY, << >>, 0, 0, 0, 0, << >>) ELSE hist[k - 1]

\* The transformed current point and subpath-start point before instruction k.
CurrentPointAt(k) == transformPoint(Before(k).ctm, pageH, Before(k).cx, Before(k).cy)
StartPointAt(k) == transformPoint(Before(k).ctm, pageH, Before(k).mx, Before(k).my)

\* The Euclidean distance of two points is more than half a unit.
FartherThanHalf(P, Q) ==
    \/ Abs(P[1] - Q[1]) > Unit
    \/ Abs(P[2] - Q[2]) > Unit
    \/ 4 * ((P[1] - Q[1]) * (P[1] - Q[1]) + (P[2] - Q[2]) * (P[2] - Q[2])) > Unit * Unit

\* The two points differ by more than half a unit along x or along y.
ApartOnAnAxis(P, Q) == 2 * Abs(P[1] - Q[1]) > Unit \/ 2 * Abs(P[2] - Q[2]) > Unit

\* Instruction k, a closePath, emitted the segment from the current point to
\* the subpath start when emit holds and nothing otherwise, and moved the
\* current point to the subpath start.
ClosePathDid(k, emit) ==
    /\ IF emit
       THEN /\ hist[k].nsegs = Before(k).nsegs + 1
            /\ segs[hist[k].nsegs] = Seg(CurrentPointAt(k), StartPointAt(k))
       ELSE hist[k].nsegs = Before(k).nsegs
    /\ hist[k].cx = Before(k).mx /\ hist[k].cy = Before(k).my
    /\ hist[k].mx = Before(k).mx /\ hist[k].my = Before(k).my

\* C15 as stated: closePath emits the segment if and only if the distance
\* between the two transformed points exceeds 0.5 units.
C15_ClosePathByDistance ==
    \A k \in 1..Len(ops) :
        ops[k].fn = "closePath" =>
            ClosePathDid(k, FartherThanHalf(CurrentPointAt(k), StartPointAt(k)))

\* C15: closePath emits a segment from the transformed current point to the
\* transformed subpath-start point if and only if the two points differ by
\* more than 0.5 units along x or along y, and in every case sets the current
\* point to the subpath-start point afterwards.
C15_ClosePathByAxis ==
    \A k \in 1..Len(ops) :
        ops[k].fn = "closePath" =>
            ClosePathDid(k, ApartOnAnAxis(CurrentPointAt(k), StartPointAt(k)))

\* A closePath between two points 0.375 apart on both axes, 0.53 apart in the
\* plane: nothing emitted, the current point moved.
C15_Witness ==
    \E k \in 1..Len(ops) :
        /\ ops[k].fn = "closePath"
        /\ FartherThanHalf(CurrentPointAt(k), StartPointAt(k))
        /\ ~ApartOnAnAxis(CurrentPointAt(k), StartPointAt(k))
        /\ hist[k].nsegs = Before(k).nsegs
        /\ <<Before(k).cx, Before(k).cy>> # <<hist[k].cx, hist[k].cy>>

\* C24: an instruction the switch has no case for, and a restore met with
\* nothing saved, leave the matrix, the stack, the current point and the
\* subpath start as they were and emit nothing; the loop goes on to the next
\* instruction.
C24_SkippedInstructionsChangeNothing ==
    \A k \in 1..Len(ops) :
        (\/ ops[k].fn \notin {"save", "restore", "transform", "moveTo", "lineTo",
                              "rectangle", "closePath"}
         \/ (ops[k].fn = "restore" /\ Before(k).stack = << >>))
            => /\ hist[k] = Before(k)
               /\ k = Len(ops) => Snapshot(ctm, ctmStack, cx, cy, mx, my, segs) = Before(k)

\* Under a matrix other than the identity: an unknown instruction, a restore
\* with nothing saved, then a lineTo that draws from where the point was.
C24_Witness ==
    \E k \in 1..(Len(ops) - 2) :
        /\ ops[k].fn = "other"
        /\ ops[k + 1].fn = "restore" /\ Before(k + 1).stack = << >>
        /\ ops[k + 2].fn = "lineTo"
        /\ Before(k).ctm # IDENTITY
        /\ hist[k + 2].ctm = Before(k).ctm
        /\ hist[k + 2].nsegs = Before(k).nsegs + 1

\* (x, y) through matrix m, the vertical axis measured down from the page top.
MappedX(m, x, y) == m[1] * x + m[3] * y + m[5]
MappedY(m, x, y) == pageH - (m[2] * x + m[4] * y + m[6])

\* C25: moveTo(x, y) emits nothing and sets the current point and the subpath
\* start to the untransformed (x, y); lineTo(x, y) emits one segment from the
\* current point to (x, y), both through the matrix in effect at the lineTo,
\* the vertical axis flipped against the page height, then the current point
\* is (x, y) and the subpath start is as before.
C25_MoveToAndLineTo ==
    \A k \in 1..Len(ops) :
        LET b == Before(k)
            a == ops[k].args
        IN  /\ ops[k].fn = "moveTo" =>
                /\ hist[k].nsegs = b.nsegs
                /\ hist[k].cx = a[1] /\ hist[k].cy = a[2]
                /\ hist[k].mx = a[1] /\ hist[k].my = a[2]
            /\ ops[k].fn = "lineTo" =>
                /\ hist[k].nsegs = b.nsegs + 1
                /\ segs[hist[k].nsegs] =
                      [x0 |-> MappedX(b.ctm, b.cx, b.cy), y0 |-> MappedY(b.ctm, b.cx, b.cy),
                       x1 |-> MappedX(b.ctm, a[1], a[2]), y1 |-> MappedY(b.ctm, a[1], a[2])]
                /\ hist[k].cx = a[1] /\ hist[k].cy = a[2]
                /\ hist[k].mx = b.mx /\ hist[k].my = b.my

\* moveTo, a transform, then a lineTo elsewhere: the segment's ends are both
\* mapped by the matrix the transform left, not the one the moveTo saw.
C25_Witness ==
    \E k \in 1..(Len(ops) - 2) :
        /\ ops[k].fn = "moveTo"
        /\ ops[k + 1].fn = "transform"
        /\ ops[k + 2].fn = "lineTo"
        /\ ops[k + 2].args # ops[k].args
        /\ hist[k + 1].ctm # Before(k).ctm
        /\ segs[hist[k + 2].nsegs].x0 = MappedX(hist[k + 1].ctm, ops[k].args[1], ops[k].args[2])
        /\ segs[hist[k + 2].nsegs].x0 # MappedX(Before(k).ctm, ops[k].args[1], ops[k].args[2])
        /\ <<hist[k + 2].mx, hist[k + 2].my>> = ops[k].args
        /\ <<hist[k + 2].cx, hist[k + 2].cy>> = ops[k + 2].args

\* C26: a rectangle adds to the segment list and changes nothing else: the
\* matrix, the stack, the current point and the subpath start are as before,
\* so a lineTo or closePath right after it starts from the point the
\* instructions before the rectangle left.
C26_RectangleKeepsPoints ==
    \A k \in 1..Len(ops) :
        ops[k].fn = "rectangle" =>
            /\ hist[k] = [Before(k) EXCEPT !.nsegs = hist[k].nsegs]
            /\ (k < Len(ops) /\ ops[k + 1].fn \in {"lineTo", "closePath"}) =>
                  /\ hist[k + 1].nsegs > hist[k].nsegs =>
                        /\ segs[hist[k + 1].nsegs].x0 = CurrentPointAt(k)[1]
                        /\ segs[hist[k + 1].nsegs].y0 = CurrentPointAt(k)[2]
                  /\ ops[k + 1].fn = "closePath" =>
                        <<hist[k + 1].cx, hist[k + 1].cy>> = <<Before(k).mx, Before(k).my>>

\* moveTo, lineTo, a rectangle elsewhere, closePath: the closing segment runs
\* from the lineTo's target to the moveTo's.
C26_Witness ==
    \E k \in 3..(Len(ops) - 1) :
        /\ ops[k - 2].fn = "moveTo"
        /\ ops[k - 1].fn = "lineTo"
        /\ ops[k].fn = "rectangle"
        /\ ops[k + 1].fn = "closePath"
        /\ <<ops[k].args[1], ops[k].args[2]>> # ops[k - 1].args
        /\ hist[k].nsegs = Before(k).nsegs + 4
        /\ hist[k + 1].nsegs = hist[k].nsegs + 1
        /\ segs[hist[k + 1].nsegs] =
              Seg(transformPoint(IDENTITY, pageH, ops[k - 1].args[1], ops[k - 1].args[2]),
                  transformPoint(IDENTITY, pageH, ops[k - 2].args[1], ops[k - 2].args[2]))

----------------------------------------------------------------------------
(* clusterValues *)

EPS == 3

MaxVals == 4
MaxCoord == 5

\* [...vals].sort((a, b) => a - b): insertion of each value after the values not
\* greater than it.
RECURSIVE InsertNum(_, _)
InsertNum(v, s) ==
    IF s = << >> THEN << v >>
    ELSE IF v < Head(s) THEN << v >> \o s
    ELSE << Head(s) >> \o InsertNum(v, Tail(s))

RECURSIVE SortNum(_)
SortNum(s) == IF s = << >> THEN << >> ELSE InsertNum(s[Len(s)], SortNum(SubSeq(s, 1, Len(s) - 1)))

\* A test that compares with twice the tolerance.
StartsNewClusterWide(last, v, eps) == v - last > 2 * eps

\* A test that also splits at exactly the tolerance.
StartsNewClusterAtEps(last, v, eps) == v - last >= eps

\* vals[i] - clusters[clusters.length - 1] > eps
StartsNewCluster(last, v, eps) == v - last > eps

\* A centroid that is pinned to the cluster's first value.
FoldPinned(last, v) == last

\* (clusters[clusters.length - 1] + vals[i]) / 2
Fold(last, v) == Half(last + v)

\* The loop of clusterValues over the sorted values from index i on.  clusters is
\* the array of the code; member records, for each sorted value, the cluster it
\* went to and the centroid it was compared with (its own value when it starts a
\* cluster).
RECURSIVE ClusterLoop(_, _, _, _, _)
ClusterLoop(sorted, i, eps, clusters, member) ==
    IF i > Len(sorted) THEN [clusters |-> clusters, member |-> member]
    ELSE LET n == Len(clusters)
             last == clusters[n]
             v == sorted[i]
         IN  IF StartsNewCluster(last, v, eps)
             THEN ClusterLoop(sorted, i + 1, eps, Append(clusters, v),
                              Append(member, [cluster |-> n + 1, seen |-> v]))
             ELSE ClusterLoop(sorted, i + 1, eps,
                              [clusters EXCEPT ![n] = Fold(last, v)],
                              Append(member, [cluster |-> n, seen |-> last]))

clusterRun(vals, eps) ==
    IF Len(vals) = 0 THEN [clusters |-> << >>, member |-> << >>]
    ELSE LET sorted == SortNum(vals)
         IN  ClusterLoop(sorted, 2, eps, << sorted[1] >>,
                         << [cluster |-> 1, seen |-> sorted[1]] >>)

clusterValues(vals, eps) == clusterRun(vals, eps).clusters

\* The argument lists: up to MaxVals whole coordinates between 0 and MaxCoord.
RECURSIVE SeqsUpTo(_, _)
SeqsUpTo(S, n) ==
    IF n = 0 THEN {<< >>}
    ELSE LET shorter == SeqsUpTo(S, n - 1)
         IN  shorter \cup {Append(s, v) : s \in {t \in shorter : Len(t) = n - 1}, v \in S}

CoordPool == {c * Unit : c \in 0..MaxCoord}
Tolerances == {EPS * Unit, Unit}

CvInit ==
    /\ cvVals \in SeqsUpTo(CoordPool, MaxVals)
    /\ cvEps \in Tolerances
    /\ cvOut = NoValue
    /\ cvPc = "call"

ClusterValues ==
    /\ cvPc = "call"
    /\ cvOut' = [sorted |-> SortNum(cvVals)] @@ clusterRun(cvVals, cvEps)
    /\ cvPc' = "done"
    /\ UNCHANGED <<cvVals, cvEps>>
    /\ UNCHANGED <<segVars, qtVars, pgVars, auxVars, extVars>>

InitCluster == CvInit /\ SegIdle /\ QtIdle /\ PgIdle /\ AuxIdle /\ ExtIdle

SpecCluster == InitCluster /\ [][ClusterValues]_vars

\* The number of sorted values that went to cluster c.
ClusterSize(c) == Cardinality({k \in 1..Len(cvOut.member) : cvOut.member[k].cluster = c})

\* C10 as stated: every input value lies within the tolerance of the centroid
\* finally returned for the cluster it was folded into.
C10_WithinEpsOfFinalCentroid ==
    cvPc = "done" =>
        \A k \in 1..Len(cvOut.sorted) :
            Abs(cvOut.sorted[k] - cvOut.clusters[cvOut.member[k].cluster]) <= cvEps

\* C10 amended: every input value lies within the tolerance of the running
\* centroid of its cluster at the moment it is folded in, and within the
\* tolerance of the centroid finally returned when at most three values were
\* folded into that cluster.
C10_WithinEpsWhenFolded ==
    cvPc = "done" =>
        /\ Len(cvOut.member) = Len(cvVals)
        /\ \A k \in 1..Len(cvOut.sorted) :
            LET m == cvOut.member[k]
            IN  /\ m.cluster \in 1..Len(cvOut.clusters)
                /\ Abs(cvOut.sorted[k] - m.seen) <= cvEps
                /\ ClusterSize(m.cluster) <= 3
                     => Abs(cvOut.sorted[k] - cvOut.clusters[m.cluster]) <= cvEps

\* A cluster of three distinct values whose centroid has moved off its first value.
C10_Witness ==
    /\ cvPc = "done"
    /\ Len(cvOut.sorted) = 3
    /\ Len(cvOut.clusters) = 1
    /\ cvOut.sorted[1] < cvOut.sorted[2] /\ cvOut.sorted[2] < cvOut.sorted[3]
    /\ cvOut.sorted[3] - cvOut.sorted[1] > cvEps
    /\ cvOut.clusters[1] # cvOut.sorted[1]

\* C11: the grid clusterValues returns is strictly ascending and every two
\* adjacent grid values differ by more than the clustering tolerance.
C11_GridValuesApart ==
    cvPc = "done" =>
        /\ (Len(cvVals) > 0) <=> (Len(cvOut.clusters) > 0)
        /\ \A c \in 1..(Len(cvOut.clusters) - 1) :
              cvOut.clusters[c + 1] - cvOut.clusters[c] > cvEps

\* Two clusters, the first ended by a value just past the tolerance and the
\* second moved by a value folded into it.
C11_Witness ==
    /\ cvPc = "done"
    /\ Len(cvOut.clusters) = 2
    /\ ClusterSize(1) >= 2 /\ ClusterSize(2) >= 2
    /\ \E k \in 2..Len(cvOut.sorted) :
          /\ cvOut.member[k].cluster = 2 /\ cvOut.member[k - 1].cluster = 1
          /\ cvOut.clusters[2] > cvOut.sorted[k]
          /\ cvOut.sorted[k] - cvOut.clusters[1] = cvEps + Half(Unit)

\* The sum of the sorted values k..Len that went to cluster c.
RECURSIVE SumOfCluster(_, _)
SumOfCluster(c, k) ==
    IF k > Len(cvOut.sorted) THEN 0
    ELSE (IF cvOut.member[k].cluster = c THEN cvOut.sorted[k] ELSE 0) + SumOfCluster(c, k + 1)

\* The sorted values before index k that went to the cluster of value k - 1.
EarlierOfCluster(k) ==
    {j \in 1..(k - 1) : cvOut.member[j].cluster = cvOut.member[k - 1].cluster}

RECURSIVE SumOver(_)
SumOver(S) ==
    IF S = {} THEN 0
    ELSE LET j == CHOOSE j \in S : TRUE IN cvOut.sorted[j] + SumOver(S \ {j})

\* C16 as stated: each centroid is the arithmetic mean of the values folded
\* into its cluster, and a value starts a new cluster exactly when it exceeds
\* the mean of the values of the current cluster by more than the tolerance.
C16_CentroidIsArithmeticMean ==
    cvPc = "done" =>
        /\ \A c \in 1..Len(cvOut.clusters) :
              cvOut.clusters[c] * ClusterSize(c) = SumOfCluster(c, 1)
        /\ \A k \in 2..Len(cvOut.sorted) :
              (cvOut.member[k].cluster # cvOut.member[k - 1].cluster)
                  <=> (cvOut.sorted[k] * Cardinality(EarlierOfCluster(k))
                          > SumOver(EarlierOfCluster(k))
                              + cvEps * Cardinality(EarlierOfCluster(k)))

----------------------------------------------------------------------------
(* Text: normalizePdfText, buildLineText and the regular expressions *)

LINE_GAP == 2

DigitChars == {"0", "1", "2", "3", "4", "5", "6", "7", "8", "9"}
LowerLetters == << "a", "b", "c", "d", "e", "f", "g", "h", "i", "j", "k", "l", "m",
                   "n", "o", "p", "q", "r", "s", "t", "u", "v", "w", "x", "y", "z" >>
UpperLetters == << "A", "B", "C", "D", "E", "F", "G", "H", "I", "J", "K", "L", "M",
                   "N", "O", "P", "Q", "R", "S", "T", "U", "V", "W", "X", "Y", "Z" >>

\* \w of a regular expression
IsWordChar(c) ==
    c \in DigitChars \cup SeqToSet(LowerLetters) \cup SeqToSet(UpperLetters) \cup {"_"}

\* \s of a regular expression, among the characters the model uses
IsSpaceChar(c) == c \in {" ", "<TAB>", "<LF>", "<CR>", "<VT>", "<FF>", "<NBSP>"}

\* [\u0000-\u0008\u000B\u000C\u000E-\u001F], among the characters the model uses
IsControlChar(c) == c \in {"<NUL>", "<SOH>", "<VT>", "<FF>", "<ESC>"}

\* String.prototype.toUpperCase on one character
ToUpperChar(c) ==
    IF \E k \in 1..26 : LowerLetters[k] = c
    THEN UpperLetters[CHOOSE k \in 1..26 : LowerLetters[k] = c]
    ELSE c

toUpperCase(s) == [k \in 1..Len(s) |-> ToUpperChar(s[k])]

\* .replace(/\s+/g, ' ')
RECURSIVE CollapseSpaces(_)
CollapseSpaces(s) ==
    IF s = << >> THEN << >>
    ELSE IF IsSpaceChar(Head(s))
         THEN IF Len(s) > 1 /\ IsSpaceChar(s[2])
              THEN CollapseSpaces(Tail(s))
              ELSE << " " >> \o CollapseSpaces(Tail(s))
         ELSE << Head(s) >> \o CollapseSpaces(Tail(s))

\* .trim()
RECURSIVE TrimLeft(_)
TrimLeft(s) ==
    IF s # << >> /\ IsSpaceChar(Head(s)) THEN TrimLeft(Tail(s)) ELSE s

RECURSIVE TrimRight(_)
TrimRight(s) ==
    IF s # << >> /\ IsSpaceChar(s[Len(s)])
    THEN TrimRight(SubSeq(s, 1, Len(s) - 1))
    ELSE s

trim(s) == TrimRight(TrimLeft(s))

\* A normalisation that keeps control characters.
normalizeKeepControls(str) == trim(CollapseSpaces(str))

normalizePdfText(str) ==
    LET blanked == [k \in 1..Len(str) |->
                        IF IsControlChar(str[k]) THEN " " ELSE str[k]]
    IN  trim(CollapseSpaces(blanked))

\* [...items].sort((a, b) => a.x - b.x): a stable sort by x.
RECURSIVE InsertByX(_, _)
InsertByX(it, s) ==
    IF s = << >> THEN << it >>
    ELSE IF it.x < Head(s).x THEN << it >> \o s
    ELSE << Head(s) >> \o InsertByX(it, Tail(s))

RECURSIVE SortByX(_)
SortByX(s) ==
    IF s = << >> THEN << >>
    ELSE InsertByX(s[Len(s)], SortByX(SubSeq(s, 1, Len(s) - 1)))

\* A joining loop that puts a space at a gap of LINE_GAP too.
RECURSIVE LineTextLoopGapAtLeast(_, _, _, _)
LineTextLoopGapAtLeast(sorted, i, text, prev) ==
    IF i > Len(sorted) THEN text
    ELSE LET item == sorted[i]
             value == normalizePdfText(item.str)
         IN  IF value = << >> THEN LineTextLoopGapAtLeast(sorted, i + 1, text, prev)
             ELSE LET gap == IF prev # << >>
                             THEN item.x - (prev[1].x + prev[1].w)
                             ELSE (LINE_GAP + 1) * Unit
                      sep == IF text # << >> /\ gap >= LINE_GAP * Unit
                             THEN << " " >> ELSE << >>
                  IN  LineTextLoopGapAtLeast(sorted, i + 1, text \o sep \o value, << item >>)

\* The loop of buildLineText over the sorted items from index i on; prev is the
\* sequence holding the last kept item, or empty.
RECURSIVE LineTextLoop(_, _, _, _)
LineTextLoop(sorted, i, text, prev) ==
    IF i > Len(sorted) THEN text
    ELSE LET item == sorted[i]
             value == normalizePdfText(item.str)
         IN  IF value = << >> THEN LineTextLoop(sorted, i + 1, text, prev)
             ELSE LET gap == IF prev # << >>
                             THEN item.x - (prev[1].x + prev[1].w)
                             ELSE (LINE_GAP + 1) * Unit
                      sep == IF text # << >> /\ gap > LINE_GAP * Unit
                             THEN << " " >> ELSE << >>
                  IN  LineTextLoop(sorted, i + 1, text \o sep \o value, << item >>)

buildLineText(items) ==
    IF Len(items) = 0 THEN << >>
    ELSE trim(CollapseSpaces(LineTextLoop(SortByX(items), 1, << >>, << >>)))

\* The characters of s from position p on read tok, letter case ignored.
MatchAt(s, p, tok) ==
    /\ p >= 1
    /\ p + Len(tok) - 1 <= Len(s)
    /\ \A k \in 1..Len(tok) : ToUpperChar(s[p + k - 1]) = ToUpperChar(tok[k])

\* \b between positions p - 1 and p of s
BoundaryBefore(s, p) ==
    (p - 1 >= 1 /\ p - 1 <= Len(s) /\ IsWordChar(s[p - 1]))
        # (p >= 1 /\ p <= Len(s) /\ IsWordChar(s[p]))

\* \btok\b matches at position p
WordAt(s, p, tok) ==
    /\ MatchAt(s, p, tok)
    /\ BoundaryBefore(s, p)
    /\ BoundaryBefore(s, p + Len(tok))

\* The first position from `from` on where \btok\b matches, or 0.
FindWord(s, tok, from) ==
    LET hits == {p \in from..Len(s) : WordAt(s, p, tok)}
    IN  IF hits = {} THEN 0 ELSE CHOOSE p \in hits : \A q \in hits : p <= q

QUARTER_LABELS == << <<"1", "T">>, <<"2", "T">>, <<"3", "T">>, <<"4", "T">>,
                     <<"T", "o", "t", "a", "l">> >>

\* /\b1T\b.*\b2T\b.*\b3T\b.*\b4T\b.*\bTotal\b/i .test(s), from label k and
\* position `from` on: the leftmost match of each label leaves the most room for
\* the labels after it.  (s holds no line terminator: buildLineText has collapsed
\* all white space to single spaces.)
RECURSIVE HeaderFrom(_, _, _)
HeaderFrom(s, k, from) ==
    IF k > Len(QUARTER_LABELS) THEN TRUE
    ELSE LET p == FindWord(s, QUARTER_LABELS[k], from)
         IN  p # 0 /\ HeaderFrom(s, k + 1, p + Len(QUARTER_LABELS[k]))

QUARTER_HEADER(s) == HeaderFrom(s, 1, 1)

IMPORTES == <<"i", "m", "p", "o", "r", "t", "e", "s">>

\* /^importes\b/i .test(s)
StartsWithImportes(s) == WordAt(s, 1, IMPORTES)

\* The number of digits of s from position p on.
RECURSIVE DigitRun(_, _)
DigitRun(s, p) ==
    IF p <= Len(s) /\ s[p] \in DigitChars THEN 1 + DigitRun(s, p + 1) ELSE 0

\* (?:\.\d{3})*(?:,\d+)?$ from position p on
RECURSIVE EuropeanTail(_, _)
EuropeanTail(s, p) ==
    IF p > Len(s) THEN TRUE
    ELSE IF s[p] = "." THEN DigitRun(s, p + 1) = 3 /\ EuropeanTail(s, p + 4)
    ELSE IF s[p] = "," THEN DigitRun(s, p + 1) >= 1
                            /\ p + DigitRun(s, p + 1) = Len(s)
    ELSE FALSE

\* /^-?\d{1,3}(?:\.\d{3})*(?:,\d+)?$/ .test(s.trim())
isEuropeanNumber(str) ==
    LET s == trim(str)
        p == IF s # << >> /\ s[1] = "-" THEN 2 ELSE 1
        n == DigitRun(s, p)
    IN  n >= 1 /\ n <= 3 /\ EuropeanTail(s, p + n)

----------------------------------------------------------------------------
(* detectQuarterTable.  Indices are 1-based here: headerIdx and importesIdx *)
(* are the code's indices plus one, bestIdx = 0 is the code's -1.           *)

NoMid == [known |-> FALSE, mid |-> 0]
NoMatch == [found |-> FALSE]

midX(it) == it.x + Half(it.w)

\* QUARTER_LABELS.map(label => ...): the midpoint of the first header item, in
\* x order, whose normalized text is the label, letter case ignored; else null.
ColMid(headerItems, label) ==
    LET hits == {k \in 1..Len(headerItems) :
                    toUpperCase(normalizePdfText(headerItems[k].str))
                        = toUpperCase(label)}
    IN  IF hits = {} THEN NoMid
        ELSE [known |-> TRUE,
              mid |-> midX(headerItems[CHOOSE k \in hits : \A q \in hits : k <= q])]

colMidXOf(items) ==
    LET headerItems == SortByX(items)
    IN  [c \in 1..Len(QUARTER_LABELS) |-> ColMid(headerItems, QUARTER_LABELS[c])]

KnownCount(colMidX) == Cardinality({c \in 1..Len(colMidX) : colMidX[c].known})

\* A threshold of one known column.
EnoughColumnsOne(colMidX) == KnownCount(colMidX) >= 1

\* colMidX.filter(x => x !== null).length < 2 is false
EnoughColumns(colMidX) == KnownCount(colMidX) >= 2

\* A search that also passes over the lines that do not begin with the label.
RECURSIVE NextNonEmptySkipOthers(_, _)
NextNonEmptySkipOthers(ls, j) ==
    IF j <= Len(ls) /\ ~StartsWithImportes(buildLineText(ls[j].items))
    THEN NextNonEmptySkipOthers(ls, j + 1)
    ELSE j

\* while (j < lines.length && !buildLineText(lines[j].items)) j++
RECURSIVE NextNonEmpty(_, _)
NextNonEmpty(ls, j) ==
    IF j <= Len(ls) /\ buildLineText(ls[j].items) = << >>
    THEN NextNonEmpty(ls, j + 1)
    ELSE j

\* A comparison that lets a later column win at equal distance.
CloserOrEqual(dist, bestIdx, bestDist) == bestIdx = 0 \/ dist <= bestDist

\* dist < bestDist, bestDist starting at Infinity
Closer(dist, bestIdx, bestDist) == bestIdx = 0 \/ dist < bestDist

\* The loop over the columns c .. 5 for one number.
RECURSIVE BestColumn(_, _, _, _, _)
BestColumn(colMidX, numMidX, c, bestIdx, bestDist) ==
    IF c > Len(QUARTER_LABELS) THEN bestIdx
    ELSE IF ~colMidX[c].known
         THEN BestColumn(colMidX, numMidX, c + 1, bestIdx, bestDist)
         ELSE LET dist == Abs(numMidX - colMidX[c].mid)
              IN  IF Closer(dist, bestIdx, bestDist)
                  THEN BestColumn(colMidX, numMidX, c + 1, c, dist)
                  ELSE BestColumn(colMidX, numMidX, c + 1, bestIdx, bestDist)

\* An assignment that keeps the first number of a column.
RECURSIVE AssignKeepFirst(_, _, _, _)
AssignKeepFirst(numericItems, n, colMidX, values) ==
    IF n > Len(numericItems) THEN values
    ELSE LET bestIdx == BestColumn(colMidX, midX(numericItems[n]), 1, 0, 0)
         IN  AssignKeepFirst(numericItems, n + 1, colMidX,
                 IF bestIdx >= 1 /\ values[bestIdx] = << >>
                 THEN [values EXCEPT ![bestIdx] = normalizePdfText(numericItems[n].str)]
                 ELSE values)

\* for (const numItem of numericItems) ... values[bestIdx] = normalizePdfText(...)
RECURSIVE AssignValues(_, _, _, _)
AssignValues(numericItems, n, colMidX, values) ==
    IF n > Len(numericItems) THEN values
    ELSE LET bestIdx == BestColumn(colMidX, midX(numericItems[n]), 1, 0, 0)
         IN  AssignValues(numericItems, n + 1, colMidX,
                 IF bestIdx >= 1
                 THEN [values EXCEPT ![bestIdx] = normalizePdfText(numericItems[n].str)]
                 ELSE values)

IsNumericItem(it) == isEuropeanNumber(normalizePdfText(it.str))

\* The loop of detectQuarterTable from line i on.
RECURSIVE DetectFrom(_, _)
DetectFrom(ls, i) ==
    IF i > Len(ls) THEN NoMatch
    ELSE IF ~QUARTER_HEADER(buildLineText(ls[i].items)) THEN DetectFrom(ls, i + 1)
    ELSE LET colMidX == colMidXOf(ls[i].items)
             j == NextNonEmpty(ls, i + 1)
         IN  IF ~EnoughColumns(colMidX) THEN DetectFrom(ls, i + 1)
             ELSE IF j > Len(ls) THEN DetectFrom(ls, i + 1)
             ELSE IF ~StartsWithImportes(buildLineText(ls[j].items))
                  THEN DetectFrom(ls, i + 1)
             ELSE LET numericItems == SelectSeq(ls[j].items, IsNumericItem)
                  IN  IF Len(numericItems) = 0 THEN DetectFrom(ls, i + 1)
                      ELSE [found |-> TRUE, headerIdx |-> i, importesIdx |-> j,
                            values |-> AssignValues(numericItems, 1, colMidX,
                                           << << >>, << >>, << >>, << >>, << >> >>),
                            colMidX |-> colMidX]

detectQuarterTable(ls) == DetectFrom(ls, 1)

----------------------------------------------------------------------------
(* The lines detectQuarterTable is called with *)

MaxLines == 3

T_1T == <<"1", "T">>
T_2T == <<"2", "T">>
T_3T == <<"3", "T">>
T_4T == <<"4", "T">>
T_Total == <<"T", "o", "t", "a", "l">>
T_1t == <<"1", "t">>
T_2t == <<"2", "t">>
T_3t == <<"3", "t">>
T_4t == <<"4", "t">>
T_total == <<"t", "o", "t", "a", "l">>
T_2T3T4T == <<"2", "T", " ", "3", "T", " ", "4", "T">>
T_2T3T4TTotal == T_2T3T4T \o <<" ">> \o T_Total
T_Importes == <<"I", "m", "p", "o", "r", "t", "e", "s">>
T_importes == <<"i", "m", "p", "o", "r", "t", "e", "s">>
T_ImportesX == <<"I", "m", "p", "o", "r", "t", "e", "s", "X">>
T_Otros == <<"O", "t", "r", "o", "s">>
T_abc == <<"a", "b", "c">>
T_ctrl == <<"<SOH>", " ">>
T_12p34 == <<"1", "2", ".", "3", "4">>
T_1234 == <<"1", "2", "3", "4">>

\* The number printed under column c.
NUMBERS == << <<"1", ".", "2", "3", "4", ",", "5", "6">>,
              <<"-", "7", ",", "5">>,
              <<"3", "0", "0">>,
              <<"4", "1", ",", "0">>,
              <<"2", ".", "0", "0", "0", ",", "0", "0">> >>

\* The column midpoints of the layout, in page units.
COL_MIDS == <<100, 160, 220, 280, 360>>

\* A glyph whose text is str, centred at midpoint m (page units) on the line at
\* y, six units wide per character.
makeItemAt(str, m, y) ==
    [str |-> str, x |-> m * Unit - Half(Len(str) * 6 * Unit), y |-> y,
     w |-> Len(str) * 6 * Unit, h |-> 12 * Unit]

Num(c, m) == << NUMBERS[c], m >>

H_FULL == << <<T_1T, 100>>, <<T_2T, 160>>, <<T_3T, 220>>, <<T_4T, 280>>, <<T_Total, 360>> >>
H_LOWER == << <<T_1t, 100>>, <<T_2t, 160>>, <<T_3t, 220>>, <<T_4t, 280>>, <<T_total, 360>> >>
H_TWO == << <<T_1T, 100>>, <<T_2T3T4T, 220>>, <<T_Total, 360>> >>
H_ONE == << <<T_1T, 100>>, <<T_2T3T4TTotal, 250>> >>
B_EMPTY == << >>
B_CTRL == << <<T_ctrl, 50>> >>
V_NO2T == << <<T_Importes, 40>>, Num(1, 100), Num(3, 220), Num(4, 280), Num(5, 360) >>
V_TIE == << <<T_Importes, 40>>, Num(2, 130), Num(4, 350) >>
V_REV == << Num(5, 360), Num(4, 280), Num(3, 220), <<T_Importes, 40>> >>
V_LOWER == << <<T_importes, 40>>, Num(1, 100), Num(5, 360) >>
V_NOTIMP == << <<T_Otros, 40>>, Num(1, 100) >>
V_NONUM == << <<T_Importes, 40>>, <<T_abc, 100>>, <<T_12p34, 160>>, <<T_1234, 220>> >>
V_GLUED == << <<T_ImportesX, 40>>, Num(1, 100) >>

\* Value lines with several numbers nearest to one column: two under 1T, the
\* left one later in the line; three under 3T, the middle one last; two glyphs
\* of one text under Total.
V_CROWD2 == << <<T_Importes, 40>>, Num(2, 105), Num(1, 95), Num(3, 220) >>
V_CROWD3 == << <<T_Importes, 40>>, Num(3, 225), Num(4, 215), Num(5, 220), Num(1, 100) >>
V_TWINS == << <<T_Importes, 40>>, Num(2, 160), Num(5, 350), Num(5, 365) >>
CrowdedKinds == { V_CROWD2, V_CROWD3, V_TWINS }

\* The value line with a number exactly under each column of S.
RECURSIVE NumsUnder(_, _)
NumsUnder(S, c) ==
    IF c > Len(COL_MIDS) THEN << >>
    ELSE (IF c \in S THEN << Num(c, COL_MIDS[c]) >> ELSE << >>) \o NumsUnder(S, c + 1)

V_UNDER(S) == << <<T_Importes, 40>> >> \o NumsUnder(S, 1)

LineKinds == { H_FULL, H_LOWER, H_TWO, H_ONE, B_EMPTY, B_CTRL, V_NO2T, V_TIE,
               V_REV, V_LOWER, V_NOTIMP, V_NONUM, V_GLUED }

\* The k-th line of a page sits at y = 10 k.
LineOf(desc, k) ==
    [y |-> 10 * k * Unit,
     items |-> [n \in 1..Len(desc) |-> makeItemAt(desc[n][1], desc[n][2], 10 * k * Unit)]]

LinesOf(descs) == [k \in 1..Len(descs) |-> LineOf(descs[k], k)]

HeaderKinds == { H_FULL, H_ONE }

\* Pages of fewer than MaxLines lines of any kind, pages of MaxLines lines that
\* open with a header of five glyphs or with one of two glyphs, a header over
\* each choice of numbers, and a header over each crowded value line.
LineInputs ==
    {LinesOf(d) : d \in SeqsUpTo(LineKinds, MaxLines - 1)}
        \cup {LinesOf(<< h >> \o d) :
                  h \in HeaderKinds,
                  d \in {t \in SeqsUpTo(LineKinds, MaxLines - 1) : Len(t) = MaxLines - 1}}
        \cup {LinesOf(<< H_FULL, V_UNDER(S) >>) : S \in SUBSET (1..Len(COL_MIDS))}
        \cup {LinesOf(<< H_FULL, v >>) : v \in CrowdedKinds}

QtInit ==
    /\ lines \in LineInputs
    /\ quarterMatch = NoValue
    /\ qtPc = "call"

DetectQuarterTable ==
    /\ qtPc = "call"
    /\ quarterMatch' = detectQuarterTable(lines)
    /\ qtPc' = "done"
    /\ UNCHANGED lines
    /\ UNCHANGED <<segVars, cvVars, pgVars, auxVars, extVars>>

InitQuarter == QtInit /\ SegIdle /\ CvIdle /\ PgIdle /\ AuxIdle /\ ExtIdle

SpecQuarter == InitQuarter /\ [][DetectQuarterTable]_vars

----------------------------------------------------------------------------
(* Properties of detectQuarterTable *)

Matched == qtPc = "done" /\ quarterMatch.found

HeaderLine == lines[quarterMatch.headerIdx]
ValueLine == lines[quarterMatch.importesIdx]

\* The positions, in item order, of the European-format numbers of a line.
NumericAt(line) ==
    {n \in 1..Len(line.items) : isEuropeanNumber(normalizePdfText(line.items[n].str))}

ItemMid(line, n) == line.items[n].x + Half(line.items[n].w)
ItemText(line, n) == normalizePdfText(line.items[n].str)

\* The resolved column nearest to midpoint m: least distance, and the lower index
\* at equal distance.
NearestResolved(colMidX, m) ==
    LET K == {c \in 1..5 : colMidX[c].known}
        D(c) == Abs(m - colMidX[c].mid)
    IN  CHOOSE c \in K : \A d \in K : D(c) < D(d) \/ (D(c) = D(d) /\ c <= d)

\* C1: on a match, values has exactly 5 entries; a column holds the text of a
\* numeric glyph of the value line only if its label was resolved and it is the
\* resolved column nearest to that glyph's midpoint (the lower index at equal
\* distance); every numeric glyph's nearest column is filled, with that glyph's
\* text when no other glyph shares the column; a column no glyph is nearest to
\* is the empty string.  Hence, with five labels resolved at distinct midpoints
\* and one number under each midpoint of a subset S, values[c] is that number's
\* text for c in S and empty otherwise.
C1_NearestColumnAssignment ==
    Matched =>
        LET cm == quarterMatch.colMidX
            values == quarterMatch.values
            N == NumericAt(ValueLine)
            col(n) == NearestResolved(cm, ItemMid(ValueLine, n))
        IN  /\ Len(values) = 5
            /\ \A c \in 1..5 :
                  values[c] # << >> =>
                      /\ cm[c].known
                      /\ \E n \in N : col(n) = c /\ values[c] = ItemText(ValueLine, n)
            /\ \A c \in 1..5 : (\A n \in N : col(n) # c) => values[c] = << >>
            /\ \A n \in N :
                  /\ cm[col(n)].known
                  /\ values[col(n)] # << >>
                  /\ (\A k \in N : k # n => col(k) # col(n))
                        => values[col(n)] = ItemText(ValueLine, n)
            /\ ( /\ \A c \in 1..5 : cm[c].known
                 /\ \A c, d \in 1..5 : c # d => cm[c].mid # cm[d].mid
                 /\ \A n \in N : \E c \in 1..5 : ItemMid(ValueLine, n) = cm[c].mid
                 /\ \A n, k \in N : n # k => ItemMid(ValueLine, n) # ItemMid(ValueLine, k) )
               => \A c \in 1..5 :
                     IF \E n \in N : ItemMid(ValueLine, n) = cm[c].mid
                     THEN \E n \in N : /\ ItemMid(ValueLine, n) = cm[c].mid
                                       /\ values[c] = ItemText(ValueLine, n)
                     ELSE values[c] = << >>

\* A match with five resolved labels and no number under 2T: 2T is blank and the
\* other four columns hold a number.
C1_Witness ==
    /\ Matched
    /\ \A c \in 1..5 : quarterMatch.colMidX[c].known
    /\ Cardinality(NumericAt(ValueLine)) = 4
    /\ quarterMatch.values[2] = << >>
    /\ \A c \in {1, 3, 4, 5} : quarterMatch.values[c] # << >>
    /\ \A n \in NumericAt(ValueLine) :
          ItemMid(ValueLine, n) # quarterMatch.colMidX[2].mid

\* The labels that are the whole normalized text of a glyph of the line, letter
\* case ignored.
LabelsResolved(line) ==
    {c \in 1..5 : \E n \in 1..Len(line.items) :
        toUpperCase(normalizePdfText(line.items[n].str)) = toUpperCase(QUARTER_LABELS[c])}

\* The labels that are, letter for letter, the whole normalized text of a glyph.
LabelsVerbatim(line) ==
    {c \in 1..5 : \E n \in 1..Len(line.items) :
        normalizePdfText(line.items[n].str) = QUARTER_LABELS[c]}

\* C2 as stated: the reported header line has at least two of the labels 1T, 2T,
\* 3T, 4T, Total as the whole normalized text of some glyph.
C2_TwoLabelsVerbatim ==
    Matched => Cardinality(LabelsVerbatim(HeaderLine)) >= 2

\* C2 amended: the reported header line has at least two labels that are, letter
\* case ignored, the whole normalized text of some glyph; the columns reported as
\* resolved are exactly those labels; and when every line has fewer than two such
\* labels the result is null.
C2_TwoLabelsResolved ==
    qtPc = "done" =>
        /\ quarterMatch.found =>
              /\ Cardinality(LabelsResolved(HeaderLine)) >= 2
              /\ \A c \in 1..5 :
                    quarterMatch.colMidX[c].known <=> c \in LabelsResolved(HeaderLine)
        /\ (\A i \in 1..Len(lines) : Cardinality(LabelsResolved(lines[i])) < 2)
              => ~quarterMatch.found

\* A line whose text matches the header pattern with one label resolved, followed
\* by a value line that qualifies, and no match reported.
C2_Witness ==
    /\ qtPc = "done"
    /\ ~quarterMatch.found
    /\ Len(lines) = 2
    /\ QUARTER_HEADER(buildLineText(lines[1].items))
    /\ Cardinality(LabelsResolved(lines[1])) = 1
    /\ StartsWithImportes(buildLineText(lines[2].items))
    /\ NumericAt(lines[2]) # {}

\* The text begins with the word importes, in any letter case.
BeginsWithWordImportes(text) ==
    /\ Len(text) >= 8
    /\ toUpperCase(SubSeq(text, 1, 8)) = <<"I", "M", "P", "O", "R", "T", "E", "S">>
    /\ Len(text) > 8 => ~IsWordChar(text[9])

\* The value line of the header at i is acceptable: the first line after i with
\* non-empty text exists, begins with importes and has a numeric glyph.
ValueLineOk(i, j) ==
    /\ i < j /\ j <= Len(lines)
    /\ \A k \in (i + 1)..(j - 1) : buildLineText(lines[k].items) = << >>
    /\ buildLineText(lines[j].items) # << >>
    /\ BeginsWithWordImportes(buildLineText(lines[j].items))
    /\ NumericAt(lines[j]) # {}

\* C3: a match for the header at i has importesIdx the first line after i whose
\* text is non-empty, every line between them blank, and that line begins with
\* the word importes (any letter case) and has a European-format number; a
\* header whose first non-blank follower is missing or fails this is not reported.
C3_ValueLineFollowsHeader ==
    qtPc = "done" =>
        /\ quarterMatch.found =>
              ValueLineOk(quarterMatch.headerIdx, quarterMatch.importesIdx)
        /\ \A i \in 1..Len(lines) :
              (~\E j \in 1..Len(lines) : ValueLineOk(i, j))
                  => ~(quarterMatch.found /\ quarterMatch.headerIdx = i)

\* A match whose value line comes after a skipped line that has a glyph but no
\* text, and begins with importes in lower case.
C3_Witness ==
    /\ Matched
    /\ quarterMatch.importesIdx = quarterMatch.headerIdx + 2
    /\ Len(lines[quarterMatch.headerIdx + 1].items) > 0
    /\ ValueLine.items[1].str = T_importes

\* The numeric glyphs of the value line, by position, whose nearest resolved
\* column is c.
NumbersNearest(c) ==
    {n \in NumericAt(ValueLine) :
        NearestResolved(quarterMatch.colMidX, ItemMid(ValueLine, n)) = c}

\* C28: a column of values holds the text of one numeric glyph at most: of the
\* numeric glyphs of the value line nearest to it, the one that comes last in
\* the line's item order; the others leave their text in no column.
C28_LastNumberOfAColumnWins ==
    Matched =>
        /\ \A c \in 1..5 :
              quarterMatch.values[c] =
                  IF NumbersNearest(c) = {} THEN << >>
                  ELSE ItemText(ValueLine, MaxOf(NumbersNearest(c)))
        /\ \A c \in 1..5 : \A n \in NumbersNearest(c) :
              n # MaxOf(NumbersNearest(c)) =>
                  \A d \in 1..5 :
                      quarterMatch.values[d] = ItemText(ValueLine, n) =>
                          /\ NumbersNearest(d) # {}
                          /\ ItemText(ValueLine, MaxOf(NumbersNearest(d))) = ItemText(ValueLine, n)

\* Two numbers of different text nearest to one column, the one further left
\* later in the line: the column holds the later one, no column the earlier.
C28_Witness ==
    /\ Matched
    /\ \E c \in 1..5 : \E n, m \in NumbersNearest(c) :
          /\ n < m
          /\ m = MaxOf(NumbersNearest(c))
          /\ ItemMid(ValueLine, m) < ItemMid(ValueLine, n)
          /\ ItemText(ValueLine, n) # ItemText(ValueLine, m)
          /\ quarterMatch.values[c] = ItemText(ValueLine, m)
          /\ \A d \in 1..5 : quarterMatch.values[d] # ItemText(ValueLine, n)

----------------------------------------------------------------------------
(* detectTables.  Rows and columns are 1-based here: cell (r, c) lies between *)
(* yGrid[r], yGrid[r + 1] and xGrid[c], xGrid[c + 1].                          *)

EDGE_EPS == 6

near(a, b) == Abs(a - b) <= EPS * Unit

\* The horizontal segments of the list, in order: {a, b, v}.
HSegsOf(segments) ==
    LET hs == SelectSeq(segments, LAMBDA sg : near(sg.y0, sg.y1))
    IN  [k \in 1..Len(hs) |->
            [a |-> Min2(hs[k].x0, hs[k].x1), b |-> Max2(hs[k].x0, hs[k].x1),
             v |-> Half(hs[k].y0 + hs[k].y1)]]

\* The vertical segments of the list, in order: those that are not horizontal.
VSegsOf(segments) ==
    LET vs == SelectSeq(segments, LAMBDA sg : ~near(sg.y0, sg.y1) /\ near(sg.x0, sg.x1))
    IN  [k \in 1..Len(vs) |->
            [a |-> Min2(vs[k].y0, vs[k].y1), b |-> Max2(vs[k].y0, vs[k].y1),
             v |-> Half(vs[k].x0 + vs[k].x1)]]

\* .sort((a, b) => a.a - b.a): a stable sort by a.
RECURSIVE InsertByA(_, _)
InsertByA(it, s) ==
    IF s = << >> THEN << it >>
    ELSE IF it.a < Head(s).a THEN << it >> \o s
    ELSE << Head(s) >> \o InsertByA(it, Tail(s))

RECURSIVE SortByA(_)
SortByA(s) ==
    IF s = << >> THEN << >>
    ELSE InsertByA(s[Len(s)], SortByA(SubSeq(s, 1, Len(s) - 1)))

\* The loop of edgeCovers from candidate k on.
RECURSIVE EdgeLoop(_, _, _, _)
EdgeLoop(candidates, k, reached, b) ==
    IF k > Len(candidates) THEN reached >= b - EDGE_EPS * Unit
    ELSE IF candidates[k].a > reached + EDGE_EPS * Unit THEN FALSE
    ELSE LET r2 == Max2(reached, candidates[k].b)
         IN  IF r2 >= b - EDGE_EPS * Unit THEN TRUE
             ELSE EdgeLoop(candidates, k + 1, r2, b)

edgeCovers(candidates, a, b) == EdgeLoop(candidates, 1, a - EDGE_EPS * Unit, b)

\* hasHEdge(x0, x1, y) over hSegs, hasVEdge(y0, y1, x) over vSegs.
hasEdge(axisSegs, lo, hi, fixed) ==
    edgeCovers(SortByA(SelectSeq(axisSegs,
                   LAMBDA sg : /\ near(sg.v, fixed)
                               /\ sg.b >= lo - EDGE_EPS * Unit
                               /\ sg.a <= hi + EDGE_EPS * Unit)),
               lo, hi)

CellPresentOf(hSegs, vSegs, xGrid, yGrid) ==
    [r \in 1..(Len(yGrid) - 1) |-> [c \in 1..(Len(xGrid) - 1) |->
        /\ hasEdge(hSegs, xGrid[c], xGrid[c + 1], yGrid[r])
        /\ hasEdge(hSegs, xGrid[c], xGrid[c + 1], yGrid[r + 1])
        /\ hasEdge(vSegs, yGrid[r], yGrid[r + 1], xGrid[c])
        /\ hasEdge(vSegs, yGrid[r], yGrid[r + 1], xGrid[c + 1])]]

\* Neighbours that include the four diagonal cells.
NeighboursWithDiagonals(cell) ==
    << <<cell[1], cell[2] + 1>>, <<cell[1], cell[2] - 1>>,
       <<cell[1] + 1, cell[2]>>, <<cell[1] - 1, cell[2]>>,
       <<cell[1] + 1, cell[2] + 1>>, <<cell[1] - 1, cell[2] - 1>>,
       <<cell[1] + 1, cell[2] - 1>>, <<cell[1] - 1, cell[2] + 1>> >>

\* The neighbours of a cell in the order [0,1], [0,-1], [1,0], [-1,0].
Neighbours(cell) ==
    << <<cell[1], cell[2] + 1>>, <<cell[1], cell[2] - 1>>,
       <<cell[1] + 1, cell[2]>>, <<cell[1] - 1, cell[2]>> >>

\* The for loop over the four neighbours of the dequeued cell.
RECURSIVE Enqueue(_, _, _, _, _)
Enqueue(nb, k, cellPresent, queue, visited) ==
    IF k > Len(nb) THEN [queue |-> queue, visited |-> visited]
    ELSE LET nr == nb[k][1]
             nc == nb[k][2]
         IN  IF /\ nr >= 1 /\ nr <= Len(cellPresent)
                /\ nc >= 1 /\ nc <= Len(cellPresent[1])
                /\ cellPresent[nr][nc]
                /\ <<nr, nc>> \notin visited
             THEN Enqueue(nb, k + 1, cellPresent, Append(queue, <<nr, nc>>),
                          visited \cup {<<nr, nc>>})
             ELSE Enqueue(nb, k + 1, cellPresent, queue, visited)

\* while (queue.length)
RECURSIVE Flood(_, _, _, _)
Flood(cellPresent, queue, visited, cells) ==
    IF queue = << >> THEN [cells |-> cells, visited |-> visited]
    ELSE LET cur == Head(queue)
             nx == Enqueue(Neighbours(cur), 1, cellPresent, Tail(queue), visited)
         IN  Flood(cellPresent, nx.queue, nx.visited, Append(cells, cur))

\* A size test that lets a single cell through.
IsTableRegionAny(cells) == Len(cells) >= 1

\* cells.length >= 2
IsTableRegion(cells) == Len(cells) >= 2

\* The scan over the cells in row-major order from cell number n on.
RECURSIVE ScanRegions(_, _, _, _)
ScanRegions(cellPresent, n, visited, regions) ==
    LET rows == Len(cellPresent)
        cols == IF rows = 0 THEN 0 ELSE Len(cellPresent[1])
    IN  IF n > rows * cols THEN regions
        ELSE LET r == ((n - 1) \div cols) + 1
                 c == ((n - 1) % cols) + 1
             IN  IF cellPresent[r][c] /\ <<r, c>> \notin visited
                 THEN LET f == Flood(cellPresent, << <<r, c>> >>,
                                     visited \cup {<<r, c>>}, << >>)
                      IN  ScanRegions(cellPresent, n + 1, f.visited,
                              IF IsTableRegion(f.cells) THEN Append(regions, f.cells)
                              ELSE regions)
                 ELSE ScanRegions(cellPresent, n + 1, visited, regions)


\* A cell search that stops one row short.
CellForSkipLastRow(xGrid, yGrid, rMin, rMax, cMin, cMax, mX, mY) ==
    LET hits == {rc \in (rMin..(rMax - 1)) \X (cMin..cMax) :
                    /\ mX >= xGrid[rc[2]] - EPS * Unit
                    /\ mX <= xGrid[rc[2] + 1] + EPS * Unit
                    /\ mY >= yGrid[rc[1]] - EPS * Unit
                    /\ mY <= yGrid[rc[1] + 1] + EPS * Unit}
    IN  IF hits = {} THEN << >>
        ELSE CHOOSE rc \in hits :
                \A q \in hits : rc[1] < q[1] \/ (rc[1] = q[1] /\ rc[2] <= q[2])

\* A cell search that keeps the last match.
CellForLast(xGrid, yGrid, rMin, rMax, cMin, cMax, mX, mY) ==
    LET hits == {rc \in (rMin..rMax) \X (cMin..cMax) :
                    /\ mX >= xGrid[rc[2]] - EPS * Unit
                    /\ mX <= xGrid[rc[2] + 1] + EPS * Unit
                    /\ mY >= yGrid[rc[1]] - EPS * Unit
                    /\ mY <= yGrid[rc[1] + 1] + EPS * Unit}
    IN  IF hits = {} THEN << >>
        ELSE CHOOSE rc \in hits :
                \A q \in hits : rc[1] > q[1] \/ (rc[1] = q[1] /\ rc[2] >= q[2])

\* The cell of the table a glyph midpoint falls in: the first in row-major order
\* whose bounds widened by EPS hold it; << >> when there is none.
CellFor(xGrid, yGrid, rMin, rMax, cMin, cMax, mX, mY) ==
    LET hits == {rc \in (rMin..rMax) \X (cMin..cMax) :
                    /\ mX >= xGrid[rc[2]] - EPS * Unit
                    /\ mX <= xGrid[rc[2] + 1] + EPS * Unit
                    /\ mY >= yGrid[rc[1]] - EPS * Unit
                    /\ mY <= yGrid[rc[1] + 1] + EPS * Unit}
    IN  IF hits = {} THEN << >>
        ELSE CHOOSE rc \in hits :
                \A q \in hits : rc[1] < q[1] \/ (rc[1] = q[1] /\ rc[2] <= q[2])

\* A test that lets a later table take a glyph again.
AlreadyUsedNever(used, idx) == FALSE

\* usedTextIndices.has(idx)
AlreadyUsed(used, idx) == idx \in used

\* textItems.forEach((ti, idx) => ...) for one table, from index idx on.
RECURSIVE AssignItems(_, _, _, _, _, _)
AssignItems(textItems, idx, xGrid, yGrid, box, st) ==
    IF idx > Len(textItems) THEN st
    ELSE LET ti == textItems[idx]
             mX == ti.x + Half(ti.w)
             mY == ti.y + Half(ti.h)
             rc == CellFor(xGrid, yGrid, box.rMin, box.rMax, box.cMin, box.cMax, mX, mY)
         IN  IF \/ AlreadyUsed(st.used, idx)
                \/ mX < xGrid[box.cMin] - EPS * Unit
                \/ mX > xGrid[box.cMax + 1] + EPS * Unit
                \/ mY < yGrid[box.rMin] - EPS * Unit
                \/ mY > yGrid[box.rMax + 1] + EPS * Unit
                \/ rc = << >>
             THEN AssignItems(textItems, idx + 1, xGrid, yGrid, box, st)
             ELSE AssignItems(textItems, idx + 1, xGrid, yGrid, box,
                     [used |-> st.used \cup {idx},
                      grid |-> [st.grid EXCEPT ![rc[1] - box.rMin + 1][rc[2] - box.cMin + 1]
                                    = Append(@, ti)]])

\* for (const cells of tableRegions), from region n on.
RECURSIVE BuildTables(_, _, _, _, _, _, _)
BuildTables(regions, n, textItems, xGrid, yGrid, used, tables) ==
    IF n > Len(regions) THEN [tables |-> tables, usedTextIndices |-> used]
    ELSE LET cells == regions[n]
             box == [rMin |-> MinOf({cells[k][1] : k \in 1..Len(cells)}),
                     rMax |-> MaxOf({cells[k][1] : k \in 1..Len(cells)}),
                     cMin |-> MinOf({cells[k][2] : k \in 1..Len(cells)}),
                     cMax |-> MaxOf({cells[k][2] : k \in 1..Len(cells)})]
             tRows == box.rMax - box.rMin + 1
             tCols == box.cMax - box.cMin + 1
             st == AssignItems(textItems, 1, xGrid, yGrid, box,
                       [used |-> used,
                        grid |-> [r \in 1..tRows |-> [c \in 1..tCols |-> << >>]]])
         IN  BuildTables(regions, n + 1, textItems, xGrid, yGrid, st.used,
                 Append(tables,
                     [top |-> yGrid[box.rMin], left |-> xGrid[box.cMin],
                      bottom |-> yGrid[box.rMax + 1], right |-> xGrid[box.cMax + 1],
                      grid |-> st.grid, tRows |-> tRows, tCols |-> tCols]))

\* detectTables; the result also carries the locals cellPresent and tableRegions.
detectTables(segments, textItems) ==
    LET hSegs == HSegsOf(segments)
        vSegs == VSegsOf(segments)
        none(xg, yg) == [tables |-> << >>, usedTextIndices |-> {},
                         hSegsCount |-> Len(hSegs), vSegsCount |-> Len(vSegs),
                         xGrid |-> xg, yGrid |-> yg,
                         cellPresent |-> << >>, tableRegions |-> << >>]
    IN  IF Len(hSegs) < 2 \/ Len(vSegs) < 2 THEN none(<< >>, << >>)
        ELSE LET xGrid == clusterValues([k \in 1..Len(vSegs) |-> vSegs[k].v], EPS * Unit)
                 yGrid == clusterValues([k \in 1..Len(hSegs) |-> hSegs[k].v], EPS * Unit)
             IN  IF Len(xGrid) < 2 \/ Len(yGrid) < 2 THEN none(xGrid, yGrid)
                 ELSE LET cellPresent == CellPresentOf(hSegs, vSegs, xGrid, yGrid)
                          tableRegions == ScanRegions(cellPresent, 1, {}, << >>)
                          built == BuildTables(tableRegions, 1, textItems, xGrid, yGrid,
                                               {}, << >>)
                      IN  [tables |-> built.tables,
                           usedTextIndices |-> built.usedTextIndices,
                           hSegsCount |-> Len(hSegs), vSegsCount |-> Len(vSegs),
                           xGrid |-> xGrid, yGrid |-> yGrid,
                           cellPresent |-> cellPresent, tableRegions |-> tableRegions]

----------------------------------------------------------------------------
(* groupIntoLines, the renderers and buildPageHtml *)

\* An insertion that compares y alone.
RECURSIVE InsertByY(_, _)
InsertByY(it, s) ==
    IF s = << >> THEN << it >>
    ELSE IF it.y < Head(s).y THEN << it >> \o s
    ELSE << Head(s) >> \o InsertByY(it, Tail(s))

\* .sort((a, b) => a.y - b.y || a.x - b.x): a stable sort by (y, x).
RECURSIVE InsertByYX(_, _)
InsertByYX(it, s) ==
    IF s = << >> THEN << it >>
    ELSE IF it.y < Head(s).y \/ (it.y = Head(s).y /\ it.x < Head(s).x) THEN << it >> \o s
    ELSE << Head(s) >> \o InsertByYX(it, Tail(s))

RECURSIVE SortByYX(_)
SortByYX(s) ==
    IF s = << >> THEN << >>
    ELSE InsertByYX(s[Len(s)], SortByYX(SubSeq(s, 1, Len(s) - 1)))

\* A grouping whose anchor follows the last glyph taken.
RECURSIVE GroupLoopMovingAnchor(_, _, _, _)
GroupLoopMovingAnchor(sorted, i, curLine, done) ==
    IF i > Len(sorted) THEN Append(done, curLine)
    ELSE IF Abs(sorted[i].y - curLine.y) <= EPS * Unit
         THEN GroupLoopMovingAnchor(sorted, i + 1,
                        [y |-> sorted[i].y, items |-> Append(curLine.items, sorted[i])], done)
         ELSE GroupLoopMovingAnchor(sorted, i + 1, [y |-> sorted[i].y, items |-> << sorted[i] >>],
                        Append(done, curLine))

\* The loop of groupIntoLines from sorted item i on.
RECURSIVE GroupLoop(_, _, _, _)
GroupLoop(sorted, i, curLine, done) ==
    IF i > Len(sorted) THEN Append(done, curLine)
    ELSE IF Abs(sorted[i].y - curLine.y) <= EPS * Unit
         THEN GroupLoop(sorted, i + 1,
                        [curLine EXCEPT !.items = Append(@, sorted[i])], done)
         ELSE GroupLoop(sorted, i + 1, [y |-> sorted[i].y, items |-> << sorted[i] >>],
                        Append(done, curLine))

groupIntoLines(items) ==
    IF Len(items) = 0 THEN << >>
    ELSE LET sorted == SortByYX(items)
         IN  GroupLoop(sorted, 2, [y |-> sorted[1].y, items |-> << sorted[1] >>], << >>)

\* escapeHtml: & < > " become entities, each written here as one character.
escapeHtml(str) ==
    [k \in 1..Len(str) |->
        CASE str[k] = "&" -> "&amp;"
          [] str[k] = "<" -> "&lt;"
          [] str[k] = ">" -> "&gt;"
          [] str[k] = "\"" -> "&quot;"
          [] OTHER -> str[k]]

\* renderTextLine: a paragraph, or nothing for a line without text.
renderTextLine(line) ==
    LET text == buildLineText(line.items)
    IN  IF text = << >> THEN << >>
        ELSE << [tag |-> "p", text |-> escapeHtml(text)] >>

\* A table written column by column.
renderTableTransposed(tbl) ==
    << [tag |-> "table",
        rows |-> [r \in 1..tbl.tCols |-> [c \in 1..tbl.tRows |->
            LET text == buildLineText(tbl.grid[c][r])
            IN  [text |-> escapeHtml(text),
                 align |-> IF isEuropeanNumber(text) THEN "right" ELSE "left"]]]] >>

\* renderTable: one cell per grid cell, right-aligned when its text is a number.
renderTable(tbl) ==
    << [tag |-> "table",
        rows |-> [r \in 1..tbl.tRows |-> [c \in 1..tbl.tCols |->
            LET text == buildLineText(tbl.grid[r][c])
            IN  [text |-> escapeHtml(text),
                 align |-> IF isEuropeanNumber(text) THEN "right" ELSE "left"]]]] >>

\* renderQuarterTable: the header row and the row Importes, values.
renderQuarterTable(data) ==
    << [tag |-> "quarterTable",
        headers |-> [c \in 1..(Len(QUARTER_LABELS) + 1) |->
                        escapeHtml((<< << >> >> \o QUARTER_LABELS)[c])],
        row |-> [c \in 1..(Len(data.values) + 1) |->
                    [text |-> escapeHtml((<< T_Importes >> \o data.values)[c]),
                     align |-> IF c > 1 THEN "right" ELSE "left"]]] >>

\* .sort((a, b) => a.top - b.top) and .sort((a, b) => a.y - b.y): a stable sort
\* of [key, val] pairs by key.
\* An insertion that goes before the entries of equal key.
RECURSIVE InsertByKeyBeforeEqual(_, _)
InsertByKeyBeforeEqual(it, s) ==
    IF s = << >> THEN << it >>
    ELSE IF it.key <= Head(s).key THEN << it >> \o s
    ELSE << Head(s) >> \o InsertByKeyBeforeEqual(it, Tail(s))

RECURSIVE InsertByKey(_, _)
InsertByKey(it, s) ==
    IF s = << >> THEN << it >>
    ELSE IF it.key < Head(s).key THEN << it >> \o s
    ELSE << Head(s) >> \o InsertByKey(it, Tail(s))

RECURSIVE SortByKey(_)
SortByKey(s) ==
    IF s = << >> THEN << >>
    ELSE InsertByKey(s[Len(s)], SortByKey(SubSeq(s, 1, Len(s) - 1)))

SortTablesByTop(tables) ==
    LET keyed == SortByKey([k \in 1..Len(tables) |->
                               [key |-> tables[k].top, val |-> tables[k]]])
    IN  [k \in 1..Len(keyed) |-> keyed[k].val]

SortBlocksByY(bs) ==
    LET keyed == SortByKey([k \in 1..Len(bs) |-> [key |-> bs[k].y, val |-> bs[k]]])
    IN  [k \in 1..Len(keyed) |-> keyed[k].val]

\* A filter that looks up the index before each glyph's own.
FreeItemsIndexBefore(textItems, used) ==
    LET keep == SelectSeq([k \in 1..Len(textItems) |-> k], LAMBDA k : (k - 1) \notin used)
    IN  [k \in 1..Len(keep) |-> textItems[keep[k]]]

\* textItems.filter((_, i) => !usedTextIndices.has(i))
FreeItems(textItems, used) ==
    LET keep == SelectSeq([k \in 1..Len(textItems) |-> k], LAMBDA k : k \notin used)
    IN  [k \in 1..Len(keep) |-> textItems[keep[k]]]

\* A filter that lets the consumed glyphs through.
LineItemsAll(textItems, used) == textItems

\* The glyphs groupIntoLines is called with.
LineItems(textItems, used) == FreeItems(textItems, used)

\* A fallback that is skipped on pages with a ruled table.
QuarterMatchOnlyWithoutTables(tables, ls) ==
    IF Len(tables) = 0 THEN detectQuarterTable(ls) ELSE NoMatch

\* const quarterMatch = detectQuarterTable(lines)
QuarterMatchOf(tables, ls) == detectQuarterTable(ls)

\* A skip set that forgets the value line.
SkipLineIndicesHeaderOnly(match) ==
    IF match.found THEN {match.headerIdx} ELSE {}

\* skipLineIndices
SkipLineIndices(match) ==
    IF match.found THEN {match.headerIdx, match.importesIdx} ELSE {}

Render(block) ==
    CASE block.type = "table" -> renderTable(block.data)
      [] block.type = "quarterTable" -> renderQuarterTable(block.data)
      [] OTHER -> renderTextLine(block.data)

RECURSIVE RenderAll(_, _)
RenderAll(bs, k) == IF k > Len(bs) THEN << >> ELSE Render(bs[k]) \o RenderAll(bs, k + 1)

\* for (const tbl of tables) blocks.push({ type: 'table', ... })
TableBlocks(tables) ==
    [k \in 1..Len(tables) |-> [type |-> "table", y |-> tables[k].top, data |-> tables[k]]]

\* if (quarterMatch) blocks.push({ type: 'quarterTable', ... })
QuarterBlocks(ls, match) ==
    IF match.found
    THEN << [type |-> "quarterTable", y |-> ls[match.headerIdx].y,
             data |-> [values |-> match.values]] >>
    ELSE << >>

\* for (let i = 0; i < lines.length; i++), skipping the indices of skip.
TextBlocks(ls, skip) ==
    LET kept == SelectSeq([k \in 1..Len(ls) |-> k], LAMBDA k : k \notin skip)
    IN  [k \in 1..Len(kept) |-> [type |-> "text", y |-> ls[kept[k]].y, data |-> ls[kept[k]]]]

\* buildPageHtml from the sorted blocks on: the render loop and the result,
\* with the locals the properties read.
PageRendered(dt, ls, match, sorted) ==
    [detected |-> dt, lines |-> ls, quarterMatch |-> match, blocks |-> sorted,
     html |-> RenderAll(sorted, 1)]

\* buildPageHtml from quarterMatch on.
PageMatched(dt, tables, ls, match) ==
    PageRendered(dt, ls, match,
        SortBlocksByY(TableBlocks(tables) \o QuarterBlocks(ls, match)
                          \o TextBlocks(ls, SkipLineIndices(match))))

\* buildPageHtml from the sorted tables and the free lines on.
PageGrouped(dt, tables, ls) == PageMatched(dt, tables, ls, QuarterMatchOf(tables, ls))

\* buildPageHtml from the result of detectTables on.
PageDetected(pg, dt) ==
    PageGrouped(dt, SortTablesByTop(dt.tables),
                groupIntoLines(LineItems(pg.textItems, dt.usedTextIndices)))

buildPageHtml(pg) == PageDetected(pg, detectTables(pg.segments, pg.textItems))

----------------------------------------------------------------------------
(* The pages buildPageHtml is called with *)

MaxRects == 4
MaxProbes == 2
MaxTextLines == 3

PAGE_H == 400 * Unit
LAT_X == <<50, 90, 130, 170, 210>>
LAT_Y == <<100, 120, 140>>
LatCells == (1..(Len(LAT_Y) - 1)) \X (1..(Len(LAT_X) - 1))

\* The four segments extractLineSegments emits for the rectangle drawn around
\* lattice cell rc, in page-top coordinates.
CellRect(rc) ==
    RectSegs(IDENTITY, PAGE_H,
             << LAT_X[rc[2]] * Unit, PAGE_H - LAT_Y[rc[1] + 1] * Unit,
                (LAT_X[rc[2] + 1] - LAT_X[rc[2]]) * Unit,
                (LAT_Y[rc[1] + 1] - LAT_Y[rc[1]]) * Unit >>)

\* The rectangles of the cells of S, drawn in row-major order.
RECURSIVE DrawCells(_, _)
DrawCells(S, n) ==
    LET cols == Len(LAT_X) - 1
        rc == << ((n - 1) \div cols) + 1, ((n - 1) % cols) + 1 >>
    IN  IF n > Cardinality(LatCells) THEN << >>
        ELSE (IF rc \in S THEN CellRect(rc) ELSE << >>) \o DrawCells(S, n + 1)

\* A glyph of six units per character and height 12 whose midpoint is (mX, mY).
GlyphAt(str, mX, mY) ==
    [str |-> str, x |-> mX * Unit - Half(Len(str) * 6 * Unit), y |-> (mY - 6) * Unit,
     w |-> Len(str) * 6 * Unit, h |-> 12 * Unit]

\* Glyphs at the centre of cell (1,1), the centre of cell (2,3), the lattice
\* point shared by cells (1,2), (1,3), (2,2), (2,3), far from the lattice, and
\* at the centre of cell (2,2).
PROBES == << GlyphAt(<<"A">>, 70, 110), GlyphAt(<<"B">>, 150, 130),
             GlyphAt(<<"C">>, 130, 120), GlyphAt(<<"D">>, 300, 300),
             GlyphAt(<<"F">>, 110, 130) >>

RECURSIVE Pick(_, _, _)
Pick(pool, S, n) ==
    IF n > Len(pool) THEN << >>
    ELSE (IF n \in S THEN << pool[n] >> ELSE << >>) \o Pick(pool, S, n + 1)

\* The glyphs of text lines descs, the first at y = base, 20 units apart.
RECURSIVE TextGlyphs(_, _, _)
TextGlyphs(descs, k, base) ==
    IF k > Len(descs) THEN << >>
    ELSE [n \in 1..Len(descs[k]) |->
             makeItemAt(descs[k][n][1], descs[k][n][2], (base + 20 * (k - 1)) * Unit)]
         \o TextGlyphs(descs, k + 1, base)

\* Each glyph is an object of its own: id is its index in textItems.
MakePage(cellSet, glyphs) ==
    [textItems |-> [k \in 1..Len(glyphs) |-> [id |-> k] @@ glyphs[k]],
     segments |-> DrawCells(cellSet, 1)]

SmallSubsets(S, n) == {T \in SUBSET S : Cardinality(T) <= n}

PageTextKinds == {H_FULL, V_NO2T, V_NOTIMP, B_CTRL}
TextParts == SeqsUpTo(PageTextKinds, MaxTextLines)

\* Ruled pages with probe glyphs; text-only pages; pages with the table of cells
\* (1,1), (1,2), a glyph in it, a glyph far from it, and text lines below the
\* table (base 200) or across it (base 104); pages with the table of cells
\* (1,1), (2,1) and text lines to its right that start level with its top.
TablePages ==
    {MakePage(cs, Pick(PROBES, ps, 1)) :
        cs \in SmallSubsets(LatCells, MaxRects),
        ps \in SmallSubsets(1..Len(PROBES), MaxProbes)}
TextPages == {MakePage({}, TextGlyphs(t, 1, 200)) : t \in TextParts}
MixedLayouts ==
    { << {<<1, 1>>, <<1, 2>>}, 200 >>, << {<<1, 1>>, <<1, 2>>}, 104 >>,
      << {<<1, 1>>, <<2, 1>>}, 100 >> }
MixedPages ==
    {MakePage(lay[1], Pick(PROBES, {1, 4}, 1) \o TextGlyphs(t, 1, lay[2])) :
        t \in TextParts, lay \in MixedLayouts}

\* The page of the worked example: a 2 by 2 grid ruled by four boxes or by six
\* lines, the glyphs A, B, C, D at the cell centres in any order of arrival,
\* and the line Total: 10 below, as one glyph or as two, before or after them.
T_TotalColon == <<"T", "o", "t", "a", "l", ":">>
T_10 == <<"1", "0">>
T_TotalColon10 == <<"T", "o", "t", "a", "l", ":", " ", "1", "0">>
Grid2x2Cells == {<<1, 1>>, <<1, 2>>, <<2, 1>>, <<2, 2>>}
Grid2x2Lines ==
    [k \in 1..3 |-> Seg(<<LAT_X[1] * Unit, LAT_Y[k] * Unit>>, <<LAT_X[3] * Unit, LAT_Y[k] * Unit>>)]
    \o [k \in 1..3 |-> Seg(<<LAT_X[k] * Unit, LAT_Y[1] * Unit>>, <<LAT_X[k] * Unit, LAT_Y[3] * Unit>>)]
CellGlyphs == << GlyphAt(<<"A">>, 70, 110), GlyphAt(<<"B">>, 110, 110),
                 GlyphAt(<<"C">>, 70, 130), GlyphAt(<<"D">>, 110, 130) >>
TotalLines == { << GlyphAt(T_TotalColon10, 69, 206) >>,
                << GlyphAt(T_TotalColon, 60, 206), GlyphAt(T_10, 90, 206) >> }
Orders == {f \in [1..4 -> 1..4] : \A i, j \in 1..4 : f[i] = f[j] => i = j}
ExamplePages ==
    {[MakePage(Grid2x2Cells, IF first THEN tl \o [k \in 1..4 |-> CellGlyphs[f[k]]]
                                      ELSE [k \in 1..4 |-> CellGlyphs[f[k]]] \o tl)
         EXCEPT !.segments = IF boxes THEN @ ELSE Grid2x2Lines] :
        f \in Orders, tl \in TotalLines, first \in BOOLEAN, boxes \in BOOLEAN}

Pages == TablePages \cup TextPages \cup MixedPages \cup ExamplePages

\* The locals and the result of the call become the state.
PageResult(out) ==
    /\ detected' = out.detected
    /\ lines' = out.lines
    /\ quarterMatch' = out.quarterMatch
    /\ blocks' = out.blocks
    /\ html' = out.html

PgInit ==
    /\ page \in Pages
    /\ detected = NoValue
    /\ blocks = << >>
    /\ html = << >>
    /\ pgPc = "call"

BuildPageHtml ==
    /\ pgPc = "call"
    /\ PageResult(buildPageHtml(page))
    /\ pgPc' = "done"
    /\ UNCHANGED <<page, qtPc>>
    /\ UNCHANGED <<segVars, cvVars, auxVars, extVars>>

InitPage == PgInit /\ QtIdle /\ SegIdle /\ CvIdle /\ AuxIdle /\ ExtIdle

SpecPage == InitPage /\ [][BuildPageHtml]_vars

----------------------------------------------------------------------------
(* Properties of buildPageHtml and detectTables *)

Built == pgPc = "done"

BlocksOfType(ty) == SelectSeq(blocks, LAMBDA b : b.type = ty)
FragmentsOfTag(tg) == SelectSeq(html, LAMBDA f : f.tag = tg)

\* The text blocks that carry line k of the page.
TextBlocksOfLine(k) == SelectSeq(blocks, LAMBDA b : b.type = "text" /\ b.data = lines[k])

\* C4: when detectQuarterTable matches on a page, buildPageHtml emits exactly
\* one quarterTable block with five value columns, no text block for the header
\* line and none for the value line, and one text block for every other line.
C4_QuarterBlockReplacesTwoLines ==
    (Built /\ quarterMatch.found) =>
        /\ Len(BlocksOfType("quarterTable")) = 1
        /\ Len(BlocksOfType("quarterTable")[1].data.values) = 5
        /\ Len(FragmentsOfTag("quarterTable")) = 1
        /\ Len(FragmentsOfTag("quarterTable")[1].row) = 6
        /\ \A k \in 1..Len(lines) :
              IF k \in {quarterMatch.headerIdx, quarterMatch.importesIdx}
              THEN Len(TextBlocksOfLine(k)) = 0
              ELSE Len(TextBlocksOfLine(k)) = 1

\* A page whose header and value lines are separated by a blank line and
\* followed by another line.
C4_Witness ==
    /\ Built /\ quarterMatch.found
    /\ quarterMatch.importesIdx > quarterMatch.headerIdx + 1
    /\ Len(lines) > quarterMatch.importesIdx
    /\ Len(BlocksOfType("text")) = Len(lines) - 2

\* C5 as stated: buildPageHtml emits a quarterTable block for a page only if
\* detectTables returned no table for that page.
C5_QuarterBlockOnlyWithoutTables ==
    (Built /\ Len(BlocksOfType("quarterTable")) > 0) => Len(detected.tables) = 0

\* C5: buildPageHtml emits a quarterTable block for a page exactly when
\* detectQuarterTable matches on the lines grouped from the glyphs no table
\* consumed, whether or not detectTables returned tables for that page.
C5_QuarterBlockIffFreeLinesMatch ==
    Built =>
        /\ lines = groupIntoLines(FreeItems(page.textItems, detected.usedTextIndices))
        /\ (Len(BlocksOfType("quarterTable")) > 0) <=> detectQuarterTable(lines).found

\* A page with a ruled table, a glyph in it, and a quarterTable block.
C5_Witness ==
    /\ Built
    /\ Len(detected.tables) > 0
    /\ detected.usedTextIndices # {}
    /\ Len(BlocksOfType("quarterTable")) = 1

\* The places <<table, row, column, position>> where glyph id sits in a table.
PlacesOf(id) ==
    {pl \in (1..Len(detected.tables)) \X (1..Len(LAT_Y)) \X (1..Len(LAT_X))
            \X (1..Len(page.textItems)) :
        /\ pl[2] <= detected.tables[pl[1]].tRows
        /\ pl[3] <= detected.tables[pl[1]].tCols
        /\ pl[4] <= Len(detected.tables[pl[1]].grid[pl[2]][pl[3]])
        /\ detected.tables[pl[1]].grid[pl[2]][pl[3]][pl[4]].id = id}

InSomeLine(id) ==
    \E k \in 1..Len(lines) : \E n \in 1..Len(lines[k].items) : lines[k].items[n].id = id

\* The tables whose bounds, widened by EPS, hold the midpoint of glyph id.
TablesHolding(id) ==
    LET ti == page.textItems[id]
        mX == ti.x + Half(ti.w)
        mY == ti.y + Half(ti.h)
    IN  {t \in 1..Len(detected.tables) :
            /\ mX >= detected.tables[t].left - EPS * Unit
            /\ mX <= detected.tables[t].right + EPS * Unit
            /\ mY >= detected.tables[t].top - EPS * Unit
            /\ mY <= detected.tables[t].bottom + EPS * Unit}

\* C6: a glyph that detectTables assigned to a table cell is in exactly one
\* cell of exactly one table, also when the bounds of two tables both hold its
\* midpoint, and is not an item of any line built for that page.
C6_AssignedGlyphInOneCellAndNoLine ==
    Built =>
        \A id \in 1..Len(page.textItems) :
            /\ (id \in detected.usedTextIndices) <=> (PlacesOf(id) # {})
            /\ PlacesOf(id) # {} =>
                  /\ Cardinality(PlacesOf(id)) = 1
                  /\ ~InSomeLine(id)

\* A glyph whose midpoint is in the bounds of two tables, and a free glyph
\* that went to a line.
C6_Witness ==
    /\ Built
    /\ \E id \in 1..Len(page.textItems) :
          /\ Cardinality(TablesHolding(id)) = 2
          /\ Cardinality(PlacesOf(id)) = 1
    /\ \E id \in 1..Len(page.textItems) : InSomeLine(id)

\* The places <<line, position>> where glyph id sits in a line.
LinePlacesOf(id) ==
    {pl \in (1..Len(lines)) \X (1..Len(page.textItems)) :
        /\ pl[2] <= Len(lines[pl[1]].items)
        /\ lines[pl[1]].items[pl[2]].id = id}

\* C27: every glyph of the page sits in exactly one place: one cell of one
\* table, or one position of one line built from the free glyphs; none is
\* missing from both and none is in both.
C27_EveryGlyphOnce ==
    Built =>
        /\ \A id \in 1..Len(page.textItems) :
              Cardinality(PlacesOf(id)) + Cardinality(LinePlacesOf(id)) = 1
        /\ \A k \in 1..Len(lines) : \A n \in 1..Len(lines[k].items) :
              /\ lines[k].items[n].id \in 1..Len(page.textItems)
              /\ lines[k].items[n] = page.textItems[lines[k].items[n].id]

\* A page with a glyph in a table cell, listed before two free glyphs that
\* share a line.
C27_Witness ==
    /\ Built
    /\ \E id \in 1..Len(page.textItems) :
          /\ PlacesOf(id) # {}
          /\ \E k \in 1..Len(lines) :
                /\ Len(lines[k].items) >= 2
                /\ \A n \in 1..Len(lines[k].items) : lines[k].items[n].id > id

\* The cells of the presence matrix and the present ones.
GridCells ==
    IF Len(detected.cellPresent) = 0 THEN {}
    ELSE (1..Len(detected.cellPresent)) \X (1..Len(detected.cellPresent[1]))
PresentCells == {rc \in GridCells : detected.cellPresent[rc[1]][rc[2]]}

Adjacent(p, q) == Abs(p[1] - q[1]) + Abs(p[2] - q[2]) = 1

\* The present cells reachable from the cells of S through present neighbours.
RECURSIVE Reach(_)
Reach(S) ==
    LET more == {q \in PresentCells \ S : \E p \in S : Adjacent(p, q)}
    IN  IF more = {} THEN S ELSE Reach(S \cup more)

Components == {Reach({rc}) : rc \in PresentCells}

\* Table t spans the bounding box of component K.
SpansBox(t, K) ==
    /\ t.top = detected.yGrid[MinOf({rc[1] : rc \in K})]
    /\ t.bottom = detected.yGrid[MaxOf({rc[1] : rc \in K}) + 1]
    /\ t.left = detected.xGrid[MinOf({rc[2] : rc \in K})]
    /\ t.right = detected.xGrid[MaxOf({rc[2] : rc \in K}) + 1]

\* C7: a connected component of exactly one present cell never becomes a
\* table: every table detectTables returns comes from a component of at least
\* two present cells, and there are as many tables as such components.
C7_SingleCellNeverATable ==
    Built =>
        /\ Len(detected.tables) = Cardinality({K \in Components : Cardinality(K) >= 2})
        /\ \A k \in 1..Len(detected.tables) :
              /\ SeqToSet(detected.tableRegions[k]) \in Components
              /\ Cardinality(SeqToSet(detected.tableRegions[k])) >= 2
              /\ SpansBox(detected.tables[k], SeqToSet(detected.tableRegions[k]))

\* A page with a single ruled box and nothing else, and so no table.
C7_Witness ==
    /\ Built
    /\ Cardinality(PresentCells) = 1
    /\ Len(detected.tables) = 0

\* The insertion rank of a block: tables, then the quarter table, then text
\* lines; within a kind, the discovery index of the table or the line index.
KindRank(b) ==
    CASE b.type = "table" -> 1 [] b.type = "quarterTable" -> 2 [] OTHER -> 3
IndexInKind(b) ==
    CASE b.type = "table" -> CHOOSE k \in 1..Len(detected.tables) : detected.tables[k] = b.data
      [] b.type = "quarterTable" -> 1
      [] OTHER -> CHOOSE k \in 1..Len(lines) : lines[k] = b.data
InsertedBefore(a, b) ==
    \/ KindRank(a) < KindRank(b)
    \/ KindRank(a) = KindRank(b) /\ IndexInKind(a) < IndexInKind(b)

\* The y the claim gives each kind of block.
BlockYOk(b) ==
    CASE b.type = "table" -> b.y = b.data.top
      [] b.type = "quarterTable" -> b.y = lines[quarterMatch.headerIdx].y
      [] OTHER -> b.y = b.data.y /\ b.y = b.data.items[1].y

\* C12: buildPageHtml renders the blocks of a page in non-decreasing order of
\* their y (a table's top, the header line's y for the quarter table, the
\* anchor y of a text line), and blocks of equal y keep their insertion order:
\* tables, then the quarter table, then text lines in line order.
C12_BlocksInYOrderStable ==
    Built =>
        /\ \A i \in 1..Len(blocks) : BlockYOk(blocks[i])
        /\ \A i \in 1..Len(blocks) : \A j \in (i + 1)..Len(blocks) :
              /\ blocks[i].y <= blocks[j].y
              /\ blocks[i].y = blocks[j].y => InsertedBefore(blocks[i], blocks[j])
        /\ html = RenderAll(blocks, 1)

\* A table and the quarter table level with each other, then a text line, and
\* the fragments in that order.
C12_Witness ==
    /\ Built
    /\ Len(blocks) >= 3
    /\ blocks[1].type = "table" /\ blocks[2].type = "quarterTable"
    /\ blocks[1].y = blocks[2].y
    /\ blocks[3].type = "text"
    /\ Len(html) >= 3
    /\ html[1].tag = "table" /\ html[2].tag = "quarterTable" /\ html[3].tag = "p"

ExampleCell(ch) == [text |-> << ch >>, align |-> "left"]

\* C13: for the page of the worked example buildPageHtml returns exactly one
\* table fragment whose four cells hold A, B, C, D in row-major order, followed
\* by exactly one paragraph fragment holding Total: 10, and nothing else.
C13_WorkedExample ==
    (Built /\ page \in ExamplePages) =>
        html = << [tag |-> "table",
                   rows |-> << << ExampleCell("A"), ExampleCell("B") >>,
                               << ExampleCell("C"), ExampleCell("D") >> >>],
                  [tag |-> "p", text |-> T_TotalColon10] >>

\* The example with the grid ruled by six lines, the total line arriving first
\* in two glyphs and the cell glyphs in the order D, C, B, A.
C13_Witness ==
    /\ Built /\ page \in ExamplePages
    /\ Len(page.segments) = 6
    /\ Len(page.textItems) = 6
    /\ page.textItems[1].str = T_TotalColon
    /\ [k \in 3..6 |-> page.textItems[k].str] = (3 :> <<"D">> @@ 4 :> <<"C">> @@ 5 :> <<"B">> @@ 6 :> <<"A">>)
    /\ Len(html) = 2

\* The bounding row and column range of the component table k was built from.
RegionOf(k) == SeqToSet(detected.tableRegions[k])
BoxOf(k) ==
    [rMin |-> MinOf({rc[1] : rc \in RegionOf(k)}), rMax |-> MaxOf({rc[1] : rc \in RegionOf(k)}),
     cMin |-> MinOf({rc[2] : rc \in RegionOf(k)}), cMax |-> MaxOf({rc[2] : rc \in RegionOf(k)})]
BoxCells(k) == (BoxOf(k).rMin..BoxOf(k).rMax) \X (BoxOf(k).cMin..BoxOf(k).cMax)

GlyphMid(id) ==
    << page.textItems[id].x + Half(page.textItems[id].w),
       page.textItems[id].y + Half(page.textItems[id].h) >>

\* The midpoint of glyph id is within EPS of grid cell rc.
InCellWidened(id, rc) ==
    /\ GlyphMid(id)[1] >= detected.xGrid[rc[2]] - EPS * Unit
    /\ GlyphMid(id)[1] <= detected.xGrid[rc[2] + 1] + EPS * Unit
    /\ GlyphMid(id)[2] >= detected.yGrid[rc[1]] - EPS * Unit
    /\ GlyphMid(id)[2] <= detected.yGrid[rc[1] + 1] + EPS * Unit

\* Glyph id is one of the texts of grid cell rc of table k.
InTableCell(id, k, rc) ==
    LET texts == detected.tables[k].grid[rc[1] - BoxOf(k).rMin + 1][rc[2] - BoxOf(k).cMin + 1]
    IN  \E n \in 1..Len(texts) : texts[n].id = id

\* C19: every table is the dense rectangle over the bounding row and column
\* range of its component: rMax-rMin+1 rows of cMax-cMin+1 cells, bounded by
\* yGrid[rMin], yGrid[rMax+1], xGrid[cMin], xGrid[cMax+1]; a cell of the range
\* that is not present is a cell of the table and receives the glyphs whose
\* midpoint it alone holds, like any other.
C19_TableIsDenseBoundingBox ==
    Built =>
        /\ Len(detected.tables) = Len(detected.tableRegions)
        /\ \A k \in 1..Len(detected.tables) :
              LET t == detected.tables[k]
                  b == BoxOf(k)
              IN  /\ t.tRows = b.rMax - b.rMin + 1
                  /\ t.tCols = b.cMax - b.cMin + 1
                  /\ Len(t.grid) = t.tRows
                  /\ \A r \in 1..t.tRows : Len(t.grid[r]) = t.tCols
                  /\ t.top = detected.yGrid[b.rMin]
                  /\ t.bottom = detected.yGrid[b.rMax + 1]
                  /\ t.left = detected.xGrid[b.cMin]
                  /\ t.right = detected.xGrid[b.cMax + 1]
                  /\ \A rc \in BoxCells(k) : \A id \in 1..Len(page.textItems) :
                        (/\ InCellWidened(id, rc)
                         /\ \A q \in BoxCells(k) \ {rc} : ~InCellWidened(id, q)
                         /\ \A j \in 1..(k - 1) : j \notin TablesHolding(id))
                            => InTableCell(id, k, rc)

\* A table around a corner, and a glyph in the cell its component leaves out.
C19_Witness ==
    /\ Built
    /\ \E k \in 1..Len(detected.tables) : \E rc \in BoxCells(k) :
          /\ ~detected.cellPresent[rc[1]][rc[2]]
          /\ \E id \in 1..Len(page.textItems) : InTableCell(id, k, rc)

\* The cells of table k whose widened bounds hold the midpoint of glyph id, and
\* the first of them in row-major order.
CandidateCells(id, k) == {rc \in BoxCells(k) : InCellWidened(id, rc)}
FirstCell(S) == CHOOSE rc \in S : \A q \in S : rc[1] < q[1] \/ (rc[1] = q[1] /\ rc[2] <= q[2])

\* C20: tables are tried in discovery order; a glyph goes to the first table
\* whose bounding rectangle widened by EPS holds its midpoint, and inside that
\* table to the first cell in row-major order whose widened bounds hold the
\* midpoint; every glyph that passes the bounding-rectangle test gets a cell.
C20_FirstTableFirstCell ==
    Built =>
        \A id \in 1..Len(page.textItems) :
            IF TablesHolding(id) = {}
            THEN id \notin detected.usedTextIndices /\ PlacesOf(id) = {}
            ELSE LET k == MinOf(TablesHolding(id))
                 IN  /\ CandidateCells(id, k) # {}
                     /\ id \in detected.usedTextIndices
                     /\ InTableCell(id, k, FirstCell(CandidateCells(id, k)))
                     /\ \A pl \in PlacesOf(id) :
                           /\ pl[1] = k
                           /\ pl[2] = FirstCell(CandidateCells(id, k))[1] - BoxOf(k).rMin + 1
                           /\ pl[3] = FirstCell(CandidateCells(id, k))[2] - BoxOf(k).cMin + 1

\* A glyph on the line between two cells of its table, and a glyph no table
\* holds.
C20_Witness ==
    /\ Built
    /\ \E id \in 1..Len(page.textItems) :
          /\ TablesHolding(id) # {}
          /\ Cardinality(CandidateCells(id, MinOf(TablesHolding(id)))) >= 2
    /\ \E id \in 1..Len(page.textItems) : TablesHolding(id) = {}

----------------------------------------------------------------------------
(* hasHEdge / hasVEdge on its own *)

MaxEdgeSegs == 3

\* The edge runs along the interval at the fixed coordinate 100.  Segments on
\* that line, one within EPS of it and one just farther than EPS from it.
EdgeFixed == 100 * Unit
EdgeSeg(a, b, off) == [a |-> a * Unit, b |-> b * Unit, v |-> EdgeFixed + off]
EdgeSegPool ==
    { EdgeSeg(20, 30, 0), EdgeSeg(21, 30, 0), EdgeSeg(10, 16, 0), EdgeSeg(10, 13, 0),
      EdgeSeg(30, 40, 0), EdgeSeg(36, 40, 0), EdgeSeg(37, 45, 0), EdgeSeg(30, 34, 0),
      EdgeSeg(30, 33, 0), EdgeSeg(46, 50, 0), EdgeSeg(16, 22, 0),
      EdgeSeg(20, 30, EPS * Unit), EdgeSeg(20, 40, EPS * Unit + 1) }
EdgeIntervals == { <<20 * Unit, 40 * Unit>>, <<20 * Unit, 30 * Unit>> }

EdInit ==
    /\ edSegs \in SeqsUpTo(EdgeSegPool, MaxEdgeSegs)
    /\ \E iv \in EdgeIntervals : edLo = iv[1] /\ edHi = iv[2]
    /\ edFixed = EdgeFixed
    /\ edOut = NoValue
    /\ edPc = "call"

HasEdge ==
    /\ edPc = "call"
    /\ edOut' = hasEdge(edSegs, edLo, edHi, edFixed)
    /\ edPc' = "done"
    /\ UNCHANGED <<edSegs, edLo, edHi, edFixed>>
    /\ UNCHANGED coreVars /\ UNCHANGED extVars /\ UNCHANGED <<flVars, docVars>>

InitEdge == EdInit /\ CoreIdle /\ FlIdle /\ DocIdle /\ ExtIdle

SpecEdge == InitEdge /\ [][HasEdge]_vars

\* The segments within EPS of the fixed coordinate.
OnTheLine == {k \in 1..Len(edSegs) : Abs(edSegs[k].v - edFixed) <= EPS * Unit}

\* The points of the interval where an uncovered stretch can begin or end.
Clip(x) == Max2(edLo, Min2(edHi, x))
StretchEnds == {edLo, edHi} \cup {Clip(edSegs[k].a) : k \in OnTheLine}
                   \cup {Clip(edSegs[k].b) : k \in OnTheLine}

\* No stretch of the interval wider than EDGE_EPS is left uncovered by the
\* union of the segments on the line.
CoveredWithinTolerance ==
    ~ \E p, q \in StretchEnds :
          /\ q - p > EDGE_EPS * Unit
          /\ \A k \in OnTheLine : edSegs[k].b <= p \/ edSegs[k].a >= q

\* C17: the edge test is true if and only if no stretch of the interval left
\* uncovered by the segments within EPS of the fixed coordinate, at its start,
\* between segments, or at its end, is wider than EDGE_EPS.
C17_EdgeIffCoveredWithinTolerance ==
    edPc = "done" => (edOut <=> CoveredWithinTolerance)

----------------------------------------------------------------------------
(* processPdfFile and extractPage: an async function runs from one await to  *)
(* the next without interruption, so there is one action per awaited promise *)
(* resolved, and one for a promise rejected.                                  *)

MaxPages == 3

\* What pdf.js hands back for a page, and the signature selected in the UI
\* (sigSelect is disabled while files are processed).
PageContents == [text : {"glyphs", "none"}, ops : {"ruled", "plain"}]
Documents ==
    [pages : UNION {[1..n -> PageContents] : n \in 1..MaxPages}, sigId : {"", "sig"}]

numPages == Len(pdf.pages)

\* A function that renders the last page first.
BuildOrderReversed(n) == [k \in 1..n |-> n + 1 - k]

\* for (let i = 0; i < pages.length; i++), as the page numbers visited
BuildOrder(n) == [k \in 1..n |-> k]

\* buildPageHtml(pages[i], i): table detection, then rendering.
PageHtmlOf(pg, idx) == [pageIndex |-> idx, rendered |-> [text |-> pg.textItems, ruling |-> pg.segments]]

RECURSIVE BuildLoop(_, _, _, _)
BuildLoop(pages, order, k, st) ==
    IF k > Len(order) THEN st
    ELSE BuildLoop(pages, order, k + 1,
             [bodyHtml |-> Append(st.bodyHtml, PageHtmlOf(pages[order[k]], order[k] - 1)),
              log |-> st.log \o << <<"detectTables", order[k]>>, <<"render", order[k]>> >>])

\* processPdfFile after its first loop (lines 157-178): the value returned
\* and the steps logged.
BuiltPages(pages, log) ==
    BuildLoop(pages, BuildOrder(Len(pages)), 1, [bodyHtml |-> << >>, log |-> log])
FinishedOut(pages) ==
    [firstPage |-> pages[1],
     bodyHtml |-> IF pdf.sigId # ""
                  THEN Append(BuiltPages(pages, << >>).bodyHtml, [signature |-> pdf.sigId])
                  ELSE BuiltPages(pages, << >>).bodyHtml]
FinishedLog(pages, log) == BuiltPages(pages, log).log

DocInit ==
    /\ pdf \in Documents
    /\ docPc = "arrayBuffer"
    /\ docI = 0
    /\ docPage = NoValue
    /\ docPages = << >>
    /\ docOut = NoValue
    /\ docLog = << >>

\* await file.arrayBuffer() resolved: getDocument is called.
ArrayBufferResolved ==
    /\ docPc = "arrayBuffer"
    /\ docPc' = "getDocument"
    /\ UNCHANGED <<pdf, docI, docPage, docPages, docOut, docLog>>
    /\ UNCHANGED coreVars /\ UNCHANGED extVars /\ UNCHANGED <<edVars, flVars>>

\* await getDocument(...).promise resolved: the loop starts with getPage(1)
\* (a PDF document has at least one page).
GetDocumentResolved ==
    /\ docPc = "getDocument"
    /\ docI' = 1
    /\ docPc' = "getPage"
    /\ UNCHANGED <<pdf, docPage, docPages, docOut, docLog>>
    /\ UNCHANGED coreVars /\ UNCHANGED extVars /\ UNCHANGED <<edVars, flVars>>

\* await pdf.getPage(i) resolved: extractPage starts and asks for the text.
GetPageResolved ==
    /\ docPc = "getPage"
    /\ docPage' = [index |-> docI]
    /\ docLog' = Append(docLog, <<"extractPage", docI>>)
    /\ docPc' = "getTextContent"
    /\ UNCHANGED <<pdf, docI, docPages, docOut>>
    /\ UNCHANGED coreVars /\ UNCHANGED extVars /\ UNCHANGED <<edVars, flVars>>

\* await page.getTextContent() resolved: textItems, then getAnnotations.
TextContentResolved ==
    /\ docPc = "getTextContent"
    /\ docPage' = [textItems |-> pdf.pages[docI].text] @@ docPage
    /\ docLog' = Append(docLog, <<"textItems", docI>>)
    /\ docPc' = "getAnnotations"
    /\ UNCHANGED <<pdf, docI, docPages, docOut>>
    /\ UNCHANGED coreVars /\ UNCHANGED extVars /\ UNCHANGED <<edVars, flVars>>

\* await page.getAnnotations() resolved: getOperatorList.
AnnotationsResolved ==
    /\ docPc = "getAnnotations"
    /\ docPc' = "getOperatorList"
    /\ UNCHANGED <<pdf, docI, docPage, docPages, docOut, docLog>>
    /\ UNCHANGED coreVars /\ UNCHANGED extVars /\ UNCHANGED <<edVars, flVars>>

\* await page.getOperatorList() resolved: extractLineSegments, extractPage
\* returns, pages.push, i++, and either getPage(i) or the rest of processPdfFile.
OperatorListResolved ==
    /\ docPc = "getOperatorList"
    /\ LET extracted == [segments |-> pdf.pages[docI].ops] @@ docPage
           pages == Append(docPages, extracted)
       IN  /\ docPages' = pages
           /\ docI' = docI + 1
           /\ docPage' = NoValue
           /\ IF docI + 1 <= numPages
              THEN /\ docPc' = "getPage"
                   /\ docLog' = Append(docLog, <<"segments", docI>>)
                   /\ UNCHANGED docOut
              ELSE /\ docOut' = FinishedOut(pages)
                   /\ docLog' = FinishedLog(pages, Append(docLog, <<"segments", docI>>))
                   /\ docPc' = "resolved"
    /\ UNCHANGED pdf
    /\ UNCHANGED coreVars /\ UNCHANGED extVars /\ UNCHANGED <<edVars, flVars>>

\* An awaited promise rejected: processPdfFile rejects with it.
Rejected ==
    /\ docPc \in {"arrayBuffer", "getDocument", "getPage", "getTextContent",
                  "getAnnotations", "getOperatorList"}
    /\ docPc' = "rejected"
    /\ UNCHANGED <<pdf, docI, docPage, docPages, docOut, docLog>>
    /\ UNCHANGED coreVars /\ UNCHANGED extVars /\ UNCHANGED <<edVars, flVars>>

DocNext ==
    \/ ArrayBufferResolved
    \/ GetDocumentResolved
    \/ GetPageResolved
    \/ TextContentResolved
    \/ AnnotationsResolved
    \/ OperatorListResolved
    \/ Rejected

InitDoc == DocInit /\ CoreIdle /\ EdIdle /\ FlIdle /\ ExtIdle

SpecDoc == InitDoc /\ [][DocNext]_vars

----------------------------------------------------------------------------
(* Properties of processPdfFile *)

PositionsOf(ev) == {p \in 1..Len(docLog) : docLog[p] = ev}

\* C14 as stated: the whole pipeline of a page (segment extraction, table
\* detection, rendering) completes before the extraction of the next page
\* begins.
C14_PagePipelineBeforeNextPage ==
    \A k \in 1..(numPages - 1) :
        \A p \in PositionsOf(<<"extractPage", k + 1>>) :
            \E q \in 1..(p - 1) : docLog[q] = <<"render", k>>

\* The steps of extracting pages 1..n, and of building them, in page order.
RECURSIVE ExtractSteps(_)
ExtractSteps(n) ==
    IF n = 0 THEN << >>
    ELSE ExtractSteps(n - 1) \o << <<"extractPage", n>>, <<"textItems", n>>, <<"segments", n>> >>
RECURSIVE BuildSteps(_)
BuildSteps(n) ==
    IF n = 0 THEN << >>
    ELSE BuildSteps(n - 1) \o << <<"detectTables", n>>, <<"render", n>> >>

IsPrefix(s, t) == Len(s) <= Len(t) /\ s = SubSeq(t, 1, Len(s))

\* C14: processPdfFile extracts the pages of a document strictly in page
\* order, each extraction complete before the next begins; only when every
\* page is extracted does it detect tables and render, page by page in page
\* order, and the body holds the pages in that order.
C14_TwoPassesInPageOrder ==
    /\ IsPrefix(docLog, ExtractSteps(numPages) \o BuildSteps(numPages))
    /\ docPc = "resolved" =>
          /\ docLog = ExtractSteps(numPages) \o BuildSteps(numPages)
          /\ \A k \in 1..numPages :
                docOut.bodyHtml[k] =
                    [pageIndex |-> k - 1,
                     rendered |-> [text |-> pdf.pages[k].text, ruling |-> pdf.pages[k].ops]]

\* A document of three different pages, processed to the end.
C14_Witness ==
    /\ docPc = "resolved"
    /\ numPages = 3
    /\ pdf.pages[1] # pdf.pages[2] /\ pdf.pages[2] # pdf.pages[3]
    /\ PositionsOf(<<"extractPage", 3>>) # {}
    /\ \A p \in PositionsOf(<<"extractPage", 3>>) :
          \A q \in PositionsOf(<<"render", 1>>) : p < q

----------------------------------------------------------------------------
(* The flood fill of detectTables, one loop iteration at a time: the scan    *)
(* over (r, c), and inside it the while loop over the worklist.              *)

MaxGridCells == 6

\* The presence matrices of at most MaxGridCells cells.
MatricesOfRows(r) == UNION {[1..r -> [1..c -> BOOLEAN]] : c \in 1..(MaxGridCells \div r)}
Matrices == UNION {MatricesOfRows(r) : r \in 1..MaxGridCells}

FlRows == Len(flPresent)
FlCols == Len(flPresent[1])
ScanCell == << ((flScan - 1) \div FlCols) + 1, ((flScan - 1) % FlCols) + 1 >>

FlInit ==
    /\ flPresent \in Matrices
    /\ flScan = 1
    /\ flQueue = << >>
    /\ flVisited = {}
    /\ flCells = << >>
    /\ flRegions = << >>
    /\ flFilled = << >>
    /\ flEnqueued = [rc \in (1..Len(flPresent)) \X (1..Len(flPresent[1])) |-> 0]
    /\ flPc = "scan"

\* if (cellPresent[r][c] && !visited[r][c]) is false: the next (r, c).
SkipCell ==
    /\ flPc = "scan"
    /\ flScan <= FlRows * FlCols
    /\ ~(flPresent[ScanCell[1]][ScanCell[2]] /\ ScanCell \notin flVisited)
    /\ flScan' = flScan + 1
    /\ UNCHANGED <<flPresent, flQueue, flVisited, flCells, flRegions, flFilled, flEnqueued, flPc>>
    /\ UNCHANGED coreVars /\ UNCHANGED extVars /\ UNCHANGED <<edVars, docVars>>

\* cells = [], queue = [[r, c]], visited[r][c] = true
StartFill ==
    /\ flPc = "scan"
    /\ flScan <= FlRows * FlCols
    /\ flPresent[ScanCell[1]][ScanCell[2]] /\ ScanCell \notin flVisited
    /\ flCells' = << >>
    /\ flQueue' = << ScanCell >>
    /\ flVisited' = flVisited \cup {ScanCell}
    /\ flEnqueued' = [flEnqueued EXCEPT ![ScanCell] = @ + 1]
    /\ flPc' = "fill"
    /\ UNCHANGED <<flPresent, flScan, flRegions, flFilled>>
    /\ UNCHANGED coreVars /\ UNCHANGED extVars /\ UNCHANGED <<edVars, docVars>>

\* One iteration of while (queue.length): shift, push to cells, and the loop
\* over the four neighbours.
FillStep ==
    /\ flPc = "fill"
    /\ flQueue # << >>
    /\ LET cur == Head(flQueue)
           nx == Enqueue(Neighbours(cur), 1, flPresent, Tail(flQueue), flVisited)
       IN  /\ flCells' = Append(flCells, cur)
           /\ flQueue' = nx.queue
           /\ flVisited' = nx.visited
           /\ flEnqueued' =
                 [rc \in DOMAIN flEnqueued |->
                     flEnqueued[rc]
                       + Cardinality({k \in (Len(flQueue))..Len(nx.queue) : nx.queue[k] = rc})]
    /\ UNCHANGED <<flPresent, flScan, flRegions, flFilled, flPc>>
    /\ UNCHANGED coreVars /\ UNCHANGED extVars /\ UNCHANGED <<edVars, docVars>>

\* The worklist is empty: if (cells.length >= 2) tableRegions.push(cells), and
\* the next (r, c).
EndFill ==
    /\ flPc = "fill"
    /\ flQueue = << >>
    /\ flRegions' = IF IsTableRegion(flCells) THEN Append(flRegions, flCells) ELSE flRegions
    /\ flFilled' = Append(flFilled, flCells)
    /\ flScan' = flScan + 1
    /\ flPc' = "scan"
    /\ UNCHANGED <<flPresent, flQueue, flVisited, flCells, flEnqueued>>
    /\ UNCHANGED coreVars /\ UNCHANGED extVars /\ UNCHANGED <<edVars, docVars>>

\* Both for loops are over.
EndScan ==
    /\ flPc = "scan"
    /\ flScan > FlRows * FlCols
    /\ flPc' = "done"
    /\ UNCHANGED <<flPresent, flScan, flQueue, flVisited, flCells, flRegions, flFilled, flEnqueued>>
    /\ UNCHANGED coreVars /\ UNCHANGED extVars /\ UNCHANGED <<edVars, docVars>>

FlNext == SkipCell \/ StartFill \/ FillStep \/ EndFill \/ EndScan

InitFlood == FlInit /\ CoreIdle /\ EdIdle /\ DocIdle /\ ExtIdle

\* The loops are synchronous code: an iteration that can run does run.
SpecFlood == InitFlood /\ [][FlNext]_vars /\ WF_vars(FlNext)

\* The present cells of the matrix, and those a path of horizontally or
\* vertically adjacent present cells links to the cells of S.
PresentIn(M) == {rc \in (1..Len(M)) \X (1..Len(M[1])) : M[rc[1]][rc[2]]}
RECURSIVE LinkedTo(_, _)
LinkedTo(M, S) ==
    LET more == {q \in PresentIn(M) \ S : \E p \in S : Adjacent(p, q)}
    IN  IF more = {} THEN S ELSE LinkedTo(M, S \cup more)
ComponentsOf(M) == {LinkedTo(M, {rc}) : rc \in PresentIn(M)}

NoRepeats(s) == \A i, j \in 1..Len(s) : s[i] = s[j] => i = j

\* What the fill has to have produced when the scan is over.
FillIsComponents ==
    /\ \A k \in 1..Len(flFilled) : NoRepeats(flFilled[k])
    /\ {SeqToSet(flFilled[k]) : k \in 1..Len(flFilled)} = ComponentsOf(flPresent)
    /\ Len(flFilled) = Cardinality(ComponentsOf(flPresent))
    /\ flVisited = PresentIn(flPresent)
    /\ \A rc \in DOMAIN flEnqueued :
          flEnqueued[rc] = IF rc \in PresentIn(flPresent) THEN 1 ELSE 0
    /\ flRegions = SelectSeq(flFilled, LAMBDA r : Len(r) >= 2)
    /\ flRegions = ScanRegions(flPresent, 1, {}, << >>)

\* C18: the flood fill yields exactly the maximal 4-connected components of
\* the present-cell matrix: every present cell is enqueued and visited exactly
\* once and is in exactly one component, two present cells are in the same
\* component iff a path of adjacent present cells links them, no absent cell
\* is in a component, and the fill terminates for every matrix.
C18_FloodFillComponents ==
    /\ [](\A rc \in DOMAIN flEnqueued : flEnqueued[rc] <= 1)
    /\ [](flPc = "done" => FillIsComponents)
    /\ <>(flPc = "done")

\* A matrix with a component of three cells around a corner and a component of
\* one cell that touches it only diagonally, filled to the end.
C18_Witness ==
    /\ flPc = "done"
    /\ \E k \in 1..Len(flFilled) : Len(flFilled[k]) = 1
    /\ \E k \in 1..Len(flFilled) :
          /\ Len(flFilled[k]) = 3
          /\ \E p \in SeqToSet(flFilled[k]) : \E j \in 1..Len(flFilled) :
                /\ Len(flFilled[j]) = 1
                /\ Abs(p[1] - flFilled[j][1][1]) = 1 /\ Abs(p[2] - flFilled[j][1][2]) = 1

----------------------------------------------------------------------------
(* groupIntoLines on its own *)

MaxGlyphs == 4

\* The glyph positions: rows at 0, 2, 4 and 7 (0 and 2, and 2 and 4, are within
\* EPS of each other, 0 and 4 are not), two columns.
GlyphYs == {0, 2 * Unit, 4 * Unit, 7 * Unit}
GlyphXs == {0, 10 * Unit}
GlyphSpots == [x : GlyphXs, y : GlyphYs]

\* Each glyph is an object of its own: id is its index in items.
GlyphLists ==
    {[k \in 1..Len(sp) |-> [id |-> k] @@ sp[k]] : sp \in SeqsUpTo(GlyphSpots, MaxGlyphs)}

GlInit ==
    /\ glItems \in GlyphLists
    /\ glOut = NoValue
    /\ glPc = "call"

GroupIntoLines ==
    /\ glPc = "call"
    /\ glOut' = groupIntoLines(glItems)
    /\ glPc' = "done"
    /\ UNCHANGED glItems
    /\ UNCHANGED coreVars /\ UNCHANGED auxVars /\ UNCHANGED <<ltVars, fnVars, uiVars>>

InitLines == GlInit /\ CoreIdle /\ AuxIdle /\ LtIdle /\ FnIdle /\ UiIdle

SpecLines == InitLines /\ [][GroupIntoLines]_vars

\* The items of the lines ls, one line after the other.
RECURSIVE ItemsOfLines(_)
ItemsOfLines(ls) ==
    IF ls = << >> THEN << >> ELSE Head(ls).items \o ItemsOfLines(Tail(ls))

\* s holds every glyph of items once, in ascending (y, x).
InYXOrder(s, items) ==
    /\ Len(s) = Len(items)
    /\ {s[k] : k \in 1..Len(s)} = {items[k] : k \in 1..Len(items)}
    /\ \A k \in 1..(Len(s) - 1) :
          s[k].y < s[k + 1].y \/ (s[k].y = s[k + 1].y /\ s[k].x <= s[k + 1].x)

\* C21: the lines hold the glyphs in (y, x) order; a line's y is the y of its
\* first glyph and is never recomputed; each glyph of a line is within EPS of
\* that anchor, and the glyph that opens the next line is more than EPS from
\* it, so the anchors of consecutive lines increase by more than EPS.
C21_LinesByAnchor ==
    glPc = "done" =>
        /\ InYXOrder(ItemsOfLines(glOut), glItems)
        /\ \A k \in 1..Len(glOut) :
              /\ Len(glOut[k].items) >= 1
              /\ glOut[k].y = glOut[k].items[1].y
              /\ \A n \in 1..Len(glOut[k].items) :
                    Abs(glOut[k].items[n].y - glOut[k].y) <= EPS * Unit
        /\ \A k \in 1..(Len(glOut) - 1) :
              /\ Abs(glOut[k + 1].items[1].y - glOut[k].y) > EPS * Unit
              /\ glOut[k + 1].y - glOut[k].y > EPS * Unit

\* A glyph within EPS of the last glyph of the line above it, but not of that
\* line's first glyph.
C21_Witness ==
    /\ glPc = "done"
    /\ \E k \in 1..(Len(glOut) - 1) :
          LET its == glOut[k].items
          IN  /\ Len(its) >= 2
              /\ glOut[k + 1].y - its[Len(its)].y <= EPS * Unit
              /\ glOut[k + 1].y - glOut[k].y > EPS * Unit

\* C22: the items of every line are in non-decreasing x.
C22_LineItemsLeftToRight ==
    glPc = "done" =>
        \A k \in 1..Len(glOut) : \A n \in 1..(Len(glOut[k].items) - 1) :
            glOut[k].items[n].x <= glOut[k].items[n + 1].x


\* C22 (amended): the items of every line are in ascending (y, x): y never
\* decreases along a line, and among glyphs of equal y x never decreases.
C22_LineItemsInYXOrder ==
    glPc = "done" =>
        \A k \in 1..Len(glOut) : \A n \in 1..(Len(glOut[k].items) - 1) :
            LET a == glOut[k].items[n]
                b == glOut[k].items[n + 1]
            IN  a.y < b.y \/ (a.y = b.y /\ a.x <= b.x)

\* A line whose second glyph sits lower than, and to the left of, its first,
\* and a line of two glyphs of one y.
C22_Witness ==
    /\ glPc = "done"
    /\ \E k \in 1..Len(glOut) : \E n \in 1..(Len(glOut[k].items) - 1) :
          /\ glOut[k].items[n].y < glOut[k].items[n + 1].y
          /\ glOut[k].items[n].x > glOut[k].items[n + 1].x
    /\ \E k \in 1..Len(glOut) : \E n \in 1..(Len(glOut[k].items) - 1) :
          /\ glOut[k].items[n].y = glOut[k].items[n + 1].y
          /\ glOut[k].items[n].x < glOut[k].items[n + 1].x


----------------------------------------------------------------------------
(* buildLineText on its own *)

MaxLineGlyphs == 3

\* Glyph texts: a letter, a text with blanks around and inside it, a control
\* character, nothing.
LineStrs == { <<"a">>, <<" ", "b", "<TAB>", " ", "c", " ">>, <<"<SOH>">>, << >> }

\* Glyphs 8 wide at 0, 10, 11 and 21: the gaps between them are 2, 3 and 13
\* one way and negative the other.
LineXs == {0, 10 * Unit, 11 * Unit, 21 * Unit}
LineGlyphs == [str : LineStrs, x : LineXs, w : {8 * Unit}]
LineGlyphLists ==
    {[k \in 1..Len(g) |-> [id |-> k] @@ g[k]] : g \in SeqsUpTo(LineGlyphs, MaxLineGlyphs)}

LtInit ==
    /\ ltItems \in LineGlyphLists
    /\ ltOut = NoValue
    /\ ltPc = "call"

BuildLineText ==
    /\ ltPc = "call"
    /\ ltOut' = buildLineText(ltItems)
    /\ ltPc' = "done"
    /\ UNCHANGED ltItems
    /\ UNCHANGED coreVars /\ UNCHANGED auxVars /\ UNCHANGED <<glVars, fnVars, uiVars>>

InitText == LtInit /\ CoreIdle /\ AuxIdle /\ GlIdle /\ FnIdle /\ UiIdle

SpecText == InitText /\ [][BuildLineText]_vars

\* The place of glyph k of items when the glyphs are put in order of x, glyphs
\* of equal x keeping their order.
RankByX(items, k) ==
    1 + Cardinality({j \in 1..Len(items) :
                        items[j].x < items[k].x \/ (items[j].x = items[k].x /\ j < k)})
OrderedByX(items) ==
    [p \in 1..Len(items) |-> items[CHOOSE k \in 1..Len(items) : RankByX(items, k) = p]]

\* The glyphs of s whose normalized text is not empty.
RECURSIVE KeptGlyphs(_)
KeptGlyphs(s) ==
    IF s = << >> THEN << >>
    ELSE (IF normalizePdfText(Head(s).str) # << >> THEN << Head(s) >> ELSE << >>)
         \o KeptGlyphs(Tail(s))

\* The normalized texts of kept from glyph k on, each preceded by one space when
\* it starts more than LINE_GAP after the end of the glyph before it.
RECURSIVE JoinedFrom(_, _)
JoinedFrom(kept, k) ==
    IF k > Len(kept) THEN << >>
    ELSE (IF k > 1 /\ kept[k].x - (kept[k - 1].x + kept[k - 1].w) > LINE_GAP * Unit
          THEN << " " >> ELSE << >>)
         \o normalizePdfText(kept[k].str) \o JoinedFrom(kept, k + 1)

\* C23: the text is the normalized texts of the glyphs that have one, in order
\* of x, with exactly one space between two consecutive ones when the gap
\* between them exceeds LINE_GAP and nothing otherwise; it neither starts nor
\* ends with a space and holds no two adjacent whitespace characters.
C23_LineTextJoin ==
    ltPc = "done" =>
        /\ ltOut = JoinedFrom(KeptGlyphs(OrderedByX(ltItems)), 1)
        /\ ltOut # << >> => ~IsSpaceChar(ltOut[1]) /\ ~IsSpaceChar(ltOut[Len(ltOut)])
        /\ \A k \in 1..(Len(ltOut) - 1) : ~(IsSpaceChar(ltOut[k]) /\ IsSpaceChar(ltOut[k + 1]))

\* Three glyphs out of order of x, the middle one without text, the outer two
\* further apart than LINE_GAP: one space joins them.
C23_Witness ==
    /\ ltPc = "done"
    /\ Len(ltItems) = 3
    /\ ltItems[1].x > ltItems[2].x
    /\ LET s == OrderedByX(ltItems)
       IN  /\ normalizePdfText(s[1].str) # << >>
           /\ normalizePdfText(s[2].str) = << >>
           /\ normalizePdfText(s[3].str) = <<"b", " ", "c">>
           /\ s[3].x - (s[2].x + s[2].w) <= LINE_GAP * Unit
           /\ s[3].x - (s[1].x + s[1].w) > LINE_GAP * Unit
           /\ ltOut = normalizePdfText(s[1].str) \o << " " >> \o normalizePdfText(s[3].str)


----------------------------------------------------------------------------
(* resolveFileNameCollisions *)

MaxNames == 3

DecimalDigits == <<"0", "1", "2", "3", "4", "5", "6", "7", "8", "9">>

\* The decimal digits of a positive number, as a template literal writes it.
RECURSIVE DecimalOf(_)
DecimalOf(n) ==
    IF n < 10 THEN << DecimalDigits[n + 1] >>
    ELSE DecimalOf(n \div 10) \o << DecimalDigits[(n % 10) + 1] >>

T_eml == <<".", "e", "m", "l">>
T_output == <<"o", "u", "t", "p", "u", "t">>

\* name || 'output'
SafeName(name) == IF name = << >> THEN T_output ELSE name

\* current === 1 ? `${safe}.eml` : `${safe} (${current}).eml`
FileNameOf(safe, current) ==
    IF current = 1 THEN safe \o T_eml
    ELSE safe \o <<" ", "(">> \o DecimalOf(current) \o <<")">> \o T_eml

\* counts.get(safe) || 0
CountOf(counts, safe) == IF safe \in DOMAIN counts THEN counts[safe] ELSE 0

\* names.map(...) from name k on; counts is the Map.
RECURSIVE ResolveFrom(_, _, _)
ResolveFrom(names, k, counts) ==
    IF k > Len(names) THEN << >>
    ELSE LET safe == SafeName(names[k])
             current == CountOf(counts, safe) + 1
         IN  << FileNameOf(safe, current) >>
             \o ResolveFrom(names, k + 1,
                            [n \in DOMAIN counts \cup {safe} |->
                                IF n = safe THEN current ELSE counts[n]])

resolveFileNameCollisions(names) == ResolveFrom(names, 1, << >>)

\* Base names: two plain ones, one that ends like a numbered copy, the fallback
\* word, and the empty name.
T_a == <<"a">>
T_b == <<"b">>
T_a2 == <<"a", " ", "(", "2", ")">>
BaseNames == { T_a, T_b, T_a2, T_output, << >> }

FnInit ==
    /\ fnNames \in SeqsUpTo(BaseNames, MaxNames)
    /\ fnOut = NoValue
    /\ fnPc = "call"

ResolveFileNameCollisions ==
    /\ fnPc = "call"
    /\ fnOut' = resolveFileNameCollisions(fnNames)
    /\ fnPc' = "done"
    /\ UNCHANGED fnNames
    /\ UNCHANGED coreVars /\ UNCHANGED auxVars /\ UNCHANGED <<glVars, ltVars, uiVars>>

InitNames == FnInit /\ CoreIdle /\ AuxIdle /\ GlIdle /\ LtIdle /\ UiIdle

SpecNames == InitNames /\ [][ResolveFileNameCollisions]_vars

\* How many of the first k names are names[k].
OccurrenceOf(names, k) == Cardinality({j \in 1..k : names[j] = names[k]})

\* C29: the result has the length of the argument, its file names are pairwise
\* distinct, the first occurrence of a name is name.eml and its k-th
\* occurrence is name (k).eml.
C29_FileNamesDistinct ==
    fnPc = "done" =>
        /\ Len(fnOut) = Len(fnNames)
        /\ \A i, j \in 1..Len(fnOut) : i # j => fnOut[i] # fnOut[j]
        /\ \A k \in 1..Len(fnNames) :
              fnOut[k] = IF OccurrenceOf(fnNames, k) = 1 THEN fnNames[k] \o T_eml
                         ELSE fnNames[k] \o <<" ", "(">> \o DecimalOf(OccurrenceOf(fnNames, k))
                              \o <<")">> \o T_eml


----------------------------------------------------------------------------
(* The page: choosing files, generating, downloading *)

MaxFiles == 3
MaxRuns == 2
MaxDownloads == 1
MAX_FILES == 20

\* How many files a choice can hold: up to MaxFiles, or one more than MAX_FILES.
FileCounts == (0..MaxFiles) \cup {MAX_FILES + 1}

\* selectedFiles.map(file => ({ file, ..., status: 'Pending', error: '' }))
PendingResults(files, run) ==
    [k \in 1..Len(files) |-> [file |-> files[k], status |-> "Pending", run |-> run]]

SetStatus(rs, k, st) == [rs EXCEPT ![k].status = st]

DoneCount(rs) == Cardinality({k \in 1..Len(rs) : rs[k].status = "Done"})

\* The page as loaded; the markup decides whether the two buttons start disabled.
UiInit ==
    /\ selectedFiles = << >>
    /\ results = << >>
    /\ completed = 0
    /\ genPc = "ready"
    /\ genI = 0
    /\ pdfInputDisabled = FALSE
    /\ sigSelectDisabled = FALSE
    /\ generateBtnDisabled \in BOOLEAN
    /\ downloadAllBtnDisabled \in BOOLEAN
    /\ dlPending = 0
    /\ runs = 0
    /\ lastEvent = "load"

UiFrame == UNCHANGED coreVars /\ UNCHANGED auxVars /\ UNCHANGED <<glVars, ltVars, fnVars>>

\* pdfInput 'change': the chooser answers only while it is enabled.
PdfInputChange ==
    /\ ~pdfInputDisabled
    /\ \E n \in FileCounts :
          /\ selectedFiles' = [k \in 1..n |-> k]
          /\ generateBtnDisabled' = (n > MAX_FILES \/ n = 0)
    /\ downloadAllBtnDisabled' = TRUE
    /\ results' = << >>
    /\ lastEvent' = "change"
    /\ UNCHANGED <<completed, genPc, genI, pdfInputDisabled, sigSelectDisabled, dlPending, runs>>
    /\ UiFrame

\* generateBtn 'click', up to the first await: the early returns, then
\* setUiDisabled(true), the fresh results, and the first file set to Processing.
GenerateClick ==
    /\ ~generateBtnDisabled
    /\ genPc = "ready"
    /\ runs < MaxRuns
    /\ IF Len(selectedFiles) = 0 \/ Len(selectedFiles) > MAX_FILES
       THEN UNCHANGED uiVars
       ELSE /\ pdfInputDisabled' = TRUE
            /\ sigSelectDisabled' = TRUE
            /\ generateBtnDisabled' = TRUE
            /\ downloadAllBtnDisabled' = TRUE
            /\ runs' = runs + 1
            /\ results' = SetStatus(PendingResults(selectedFiles, runs + 1), 1, "Processing")
            /\ completed' = 0
            /\ genI' = 1
            /\ genPc' = "await"
            /\ lastEvent' = "generate"
            /\ UNCHANGED <<selectedFiles, dlPending>>
    /\ UiFrame

\* The rest of the loop body after the try statement, with rs the results as the
\* try statement left them: the next file set to Processing, or the end of the
\* handler.
AfterFile(rs) ==
    /\ completed' = completed + 1
    /\ IF genI < Len(rs)
       THEN /\ results' = SetStatus(rs, genI + 1, "Processing")
            /\ genI' = genI + 1
            /\ genPc' = "await"
            /\ lastEvent' = "file"
            /\ UNCHANGED <<pdfInputDisabled, sigSelectDisabled, generateBtnDisabled,
                           downloadAllBtnDisabled>>
       ELSE /\ results' = rs
            /\ genI' = 0
            /\ genPc' = "ready"
            /\ downloadAllBtnDisabled' = (DoneCount(rs) = 0)
            /\ pdfInputDisabled' = FALSE
            /\ sigSelectDisabled' = FALSE
            /\ generateBtnDisabled' = (Len(selectedFiles) = 0)
            /\ lastEvent' = "finish"
    /\ UNCHANGED <<selectedFiles, dlPending, runs>>
    /\ UiFrame

\* processPdfFile resolved.
ProcessResolved ==
    /\ genPc = "await"
    /\ AfterFile(SetStatus(results, genI, "Done"))

\* A failure that ends the loop.
ProcessRejectedStopping ==
    /\ genPc = "await"
    /\ completed' = completed + 1
    /\ results' = SetStatus(results, genI, "Error")
    /\ genI' = 0
    /\ genPc' = "ready"
    /\ downloadAllBtnDisabled' = (DoneCount(results) = 0)
    /\ pdfInputDisabled' = FALSE
    /\ sigSelectDisabled' = FALSE
    /\ generateBtnDisabled' = (Len(selectedFiles) = 0)
    /\ lastEvent' = "finish"
    /\ UNCHANGED <<selectedFiles, dlPending, runs>>
    /\ UiFrame

\* processPdfFile rejected: the catch clause.
ProcessRejected ==
    /\ genPc = "await"
    /\ AfterFile(SetStatus(results, genI, "Error"))

\* downloadAllBtn 'click', up to the await of downloadAllResults.
DownloadAllClick ==
    /\ ~downloadAllBtnDisabled
    /\ dlPending < MaxDownloads
    /\ downloadAllBtnDisabled' = TRUE
    /\ dlPending' = dlPending + 1
    /\ lastEvent' = "download"
    /\ UNCHANGED <<selectedFiles, results, completed, genPc, genI, pdfInputDisabled,
                   sigSelectDisabled, generateBtnDisabled, runs>>
    /\ UiFrame

\* downloadAllResults resolved: the handler enables the button again.
DownloadAllResolved ==
    /\ dlPending > 0
    /\ dlPending' = dlPending - 1
    /\ downloadAllBtnDisabled' = FALSE
    /\ lastEvent' = "downloaded"
    /\ UNCHANGED <<selectedFiles, results, completed, genPc, genI, pdfInputDisabled,
                   sigSelectDisabled, generateBtnDisabled, runs>>
    /\ UiFrame

UiNext ==
    \/ PdfInputChange \/ GenerateClick \/ ProcessResolved \/ ProcessRejected
    \/ DownloadAllClick \/ DownloadAllResolved

InitUi == UiInit /\ CoreIdle /\ AuxIdle /\ GlIdle /\ LtIdle /\ FnIdle

SpecUi == InitUi /\ [][UiNext]_vars

\* A status may stay, or move from Pending to Processing, or from Processing to
\* Done or Error.
StatusMove(s, t) ==
    \/ s = t
    \/ s = "Pending" /\ t = "Processing"
    \/ s = "Processing" /\ t \in {"Done", "Error"}

StatusIn(k, S) == results[k].status \in S

\* While a run waits for a file: the files before it are settled, it alone is
\* Processing, the files after it are Pending, in the order of the selection.
RunInOrder ==
    genPc = "await" =>
        /\ Len(results) = Len(selectedFiles)
        /\ genI \in 1..Len(results)
        /\ completed = genI - 1
        /\ \A k \in 1..Len(results) :
              /\ results[k].file = selectedFiles[k]
              /\ k < genI => StatusIn(k, {"Done", "Error"})
              /\ k = genI => StatusIn(k, {"Processing"})
              /\ k > genI => StatusIn(k, {"Pending"})

\* C30: during a generate run the files are processed one at a time in
\* selection order; a result's status only moves from Pending to Processing to
\* Done or Error and stays there; at most one result is Processing at any
\* moment; a failure does not stop the files after it; and when the run
\* finishes every result is Done or Error and the download-all button is
\* enabled if and only if at least one result is Done.
C30_GenerateRun ==
    /\ [](RunInOrder)
    /\ [](Cardinality({k \in 1..Len(results) : StatusIn(k, {"Processing"})}) <= 1)
    /\ [](lastEvent = "finish" =>
              /\ Len(results) = Len(selectedFiles)
              /\ completed = Len(results)
              /\ \A k \in 1..Len(results) : StatusIn(k, {"Done", "Error"})
              /\ downloadAllBtnDisabled = (DoneCount(results) = 0))
    /\ [][\A k \in 1..Len(results) :
             (k <= Len(results') /\ results'[k].run = results[k].run)
                 => /\ results'[k].file = results[k].file
                    /\ StatusMove(results[k].status, results'[k].status)]_vars

\* A run just finished in which the first file failed and a later one was
\* done, the download button enabled.
C30_Witness ==
    /\ lastEvent = "finish"
    /\ Len(results) >= 3
    /\ results[1].status = "Error"
    /\ results[2].status = "Done"
    /\ results[3].status = "Error"
    /\ ~downloadAllBtnDisabled

=============================================================================
